---- MODULE Spec2Model ----
(***************************************************************************)
(* Vincere OAuth proxy: the token lifecycle (src/src/oauth/service.ts),    *)
(* the secret store adapter (src/src/infra/keyvault.ts), the validators,   *)
(* the OAuth routes and the proxy routes, as one state machine.            *)
(*                                                                         *)
(* A string of the program is a sequence of characters.  A character is a  *)
(* one-character TLA+ string; the control characters are named (NUL, TAB,  *)
(* LF).  A missing query parameter (undefined) is modelled as the empty    *)
(* string: every place that reads one tests it with `!x`, which treats the *)
(* two alike.                                                              *)
(***************************************************************************)
EXTENDS Integers, Sequences, FiniteSets, TLC

\* ------------------------------------------------------------------ bounds

\* getIdTokenForTenant invocations the model follows
NumCalls == 2
\* authorization flows that complete (storeRefreshToken calls)
MaxAuths == 1
\* the clock stops advancing here (ms)
MaxNow == 50000
\* one step of the clock (ms)
TickMs == 25000
\* getIdTokenForTenant invocations the sequential specification follows
SeqCalls == 3
\* pieces a request path is made of
MaxPathPieces == 2
\* requests to /auth the authorization flow specification follows
MaxRequests == 3

\* --------------------------------------------------------------- characters

NUL == "NUL"
TAB == "TAB"
LF == "LF"
SP == " "

LowerLetters ==
  {"a","b","c","d","e","f","g","h","i","j","k","l","m",
   "n","o","p","q","r","s","t","u","v","w","x","y","z"}

UpperSeq ==
  <<"A","B","C","D","E","F","G","H","I","J","K","L","M",
    "N","O","P","Q","R","S","T","U","V","W","X","Y","Z">>

LowerSeq ==
  <<"a","b","c","d","e","f","g","h","i","j","k","l","m",
    "n","o","p","q","r","s","t","u","v","w","x","y","z">>

UpperLetters == {UpperSeq[i] : i \in 1..26}

Digits == {"0","1","2","3","4","5","6","7","8","9"}

\* String.prototype.trim removes these from both ends
WhiteSpace == {SP, TAB, LF}

\* one character of String.prototype.toLowerCase
ToLowerChar(ch) ==
  IF ch \in UpperLetters
    THEN LowerSeq[CHOOSE i \in 1..26 : UpperSeq[i] = ch]
    ELSE ch

toLowerCase(s) == [i \in 1..Len(s) |-> ToLowerChar(s[i])]

RECURSIVE TrimStart(_)
TrimStart(s) ==
  IF s # <<>> /\ Head(s) \in WhiteSpace THEN TrimStart(Tail(s)) ELSE s

RECURSIVE TrimEnd(_)
TrimEnd(s) ==
  IF s # <<>> /\ s[Len(s)] \in WhiteSpace
    THEN TrimEnd(SubSeq(s, 1, Len(s) - 1))
    ELSE s

trim(s) == TrimEnd(TrimStart(s))

\* String.prototype.startsWith
startsWith(s, p) == Len(s) >= Len(p) /\ SubSeq(s, 1, Len(p)) = p

\* String.prototype.endsWith
endsWith(s, p) ==
  Len(s) >= Len(p) /\ SubSeq(s, Len(s) - Len(p) + 1, Len(s)) = p

\* String.prototype.includes
includes(s, p) ==
  \E i \in 1..(Len(s) - Len(p) + 1) : SubSeq(s, i, i + Len(p) - 1) = p

\* String.prototype.split on a one-character separator
RECURSIVE split(_, _)
split(s, sep) ==
  IF \A i \in 1..Len(s) : s[i] # sep
    THEN <<s>>
    ELSE LET k == CHOOSE i \in 1..Len(s) :
                    s[i] = sep /\ \A j \in 1..(i - 1) : s[j] # sep
         IN <<SubSeq(s, 1, k - 1)>> \o split(SubSeq(s, k + 1, Len(s)), sep)

\* a string of n copies of ch
Rep(ch, n) == [i \in 1..n |-> ch]

\* ---------------------------------------------------------------- strings

Http == <<"h","t","t","p">>
Https == <<"h","t","t","p","s">>
VincereIo == <<".","v","i","n","c","e","r","e",".","i","o">>

Alnum == LowerLetters \cup UpperLetters \cup Digits

AllIn(s, chars) == \A i \in 1..Len(s) : s[i] \in chars

\* --------------------------------------------------------------- validators

Valid == [valid |-> TRUE, error |-> ""]
Invalid(error) == [valid |-> FALSE, error |-> error]

\* VINCERE_HOST_PATTERN = /^[a-z0-9-]+\.vincere\.io$/i
VINCERE_HOST_PATTERN(s) ==
  /\ Len(s) > Len(VincereIo)
  /\ endsWith(toLowerCase(s), VincereIo)
  /\ AllIn(SubSeq(s, 1, Len(s) - Len(VincereIo)), Alnum \cup {"-"})

SSRF_BLOCKLIST ==
  { <<"l","o","c","a","l","h","o","s","t">>,
    <<"1","2","7",".","0",".","0",".","1">>,
    <<"0",".","0",".","0",".","0">>,
    <<":",":","1">>,
    <<"1","6","9",".","2","5","4",".","1","6","9",".","2","5","4">>,
    <<"m","e","t","a","d","a","t","a",".","g","o","o","g","l","e",".",
      "i","n","t","e","r","n","a","l">> }

\* PRIVATE_IP_RANGES: /^10\./, /^172\.(1[6-9]|2[0-9]|3[0-1])\./, /^192\.168\./,
\* /^169\.254\./, /^fc00:/i, /^fe80:/i
PRIVATE_IP_RANGES(s) ==
  \/ startsWith(s, <<"1","0",".">>)
  \/ /\ startsWith(s, <<"1","7","2",".">>)
     /\ Len(s) >= 7
     /\ s[7] = "."
     /\ \/ s[5] = "1" /\ s[6] \in {"6","7","8","9"}
        \/ s[5] = "2" /\ s[6] \in Digits
        \/ s[5] = "3" /\ s[6] \in {"0","1"}
  \/ startsWith(s, <<"1","9","2",".","1","6","8",".">>)
  \/ startsWith(s, <<"1","6","9",".","2","5","4",".">>)
  \/ startsWith(toLowerCase(s), <<"f","c","0","0",":">>)
  \/ startsWith(toLowerCase(s), <<"f","e","8","0",":">>)

\* the longest tenant host validateTenantHost accepts
MaxHostLength == 253

validateTenantHost(tenantHost) ==
  LET normalized == toLowerCase(trim(tenantHost))
  IN IF tenantHost = <<>>
       THEN Invalid("Tenant host is required")
     ELSE IF Len(normalized) = 0 \/ Len(normalized) > MaxHostLength
       THEN Invalid("Invalid tenant host length")
     ELSE IF ~VINCERE_HOST_PATTERN(normalized)
       THEN Invalid("Invalid tenant host format")
     ELSE IF normalized \in SSRF_BLOCKLIST
       THEN Invalid("Invalid tenant host")
     ELSE IF PRIVATE_IP_RANGES(normalized)
       THEN Invalid("Invalid tenant host")
     ELSE Valid

\* validatePath without the '//' test
validatePathSingleSlashOnly(path) ==
  LET trimmed == trim(path)
  IN IF path = <<>>
       THEN Invalid("Path is required")
     ELSE IF includes(trimmed, <<".",".">>)
       THEN Invalid("Invalid path")
     ELSE IF includes(trimmed, <<NUL>>)
       THEN Invalid("Invalid path")
     ELSE IF \/ startsWith(trimmed, <<"/">>)
             \/ startsWith(trimmed, Http \o <<":","/","/">>)
             \/ startsWith(trimmed, Https \o <<":","/","/">>)
       THEN Invalid("Invalid path format")
     ELSE Valid

validatePath(path) ==
  LET trimmed == trim(path)
  IN IF path = <<>>
       THEN Invalid("Path is required")
     ELSE IF includes(trimmed, <<".",".">>) \/ includes(trimmed, <<"/","/">>)
       THEN Invalid("Invalid path")
     ELSE IF includes(trimmed, <<NUL>>)
       THEN Invalid("Invalid path")
     ELSE IF \/ startsWith(trimmed, <<"/">>)
             \/ startsWith(trimmed, Http \o <<":","/","/">>)
             \/ startsWith(trimmed, Https \o <<":","/","/">>)
       THEN Invalid("Invalid path format")
     ELSE Valid

\* the nonce and code lengths validateOAuthState and validateAuthCode accept
MinNonceLength == 16
MaxNonceLength == 128
MinCodeLength == 10
MaxCodeLength == 1024

\* /^[a-zA-Z0-9-_]+$/
NonceChars == Alnum \cup {"-", "_"}

\* /^[a-zA-Z0-9-_=+/]+$/
CodeChars == Alnum \cup {"-", "_", "=", "+", "/"}

\* validateOAuthState without the lower bound on the nonce length
validateOAuthStateAnyNonceLength(state) ==
  LET parts == split(state, ":")
  IN IF state = <<>>
       THEN Invalid("State parameter is required")
     ELSE IF Len(parts) # 2
       THEN Invalid("Invalid state format")
     ELSE IF \/ parts[1] = <<>>
             \/ Len(parts[1]) > MaxNonceLength
             \/ ~AllIn(parts[1], NonceChars)
       THEN Invalid("Invalid state")
     ELSE validateTenantHost(parts[2])

validateOAuthState(state) ==
  LET parts == split(state, ":")
  IN IF state = <<>>
       THEN Invalid("State parameter is required")
     ELSE IF Len(parts) # 2
       THEN Invalid("Invalid state format")
     ELSE IF \/ parts[1] = <<>>
             \/ Len(parts[1]) < MinNonceLength
             \/ Len(parts[1]) > MaxNonceLength
             \/ ~AllIn(parts[1], NonceChars)
       THEN Invalid("Invalid state")
     ELSE validateTenantHost(parts[2])

validateAuthCode(code) ==
  IF code = <<>>
    THEN Invalid("Authorization code is required")
  ELSE IF Len(code) < MinCodeLength \/ Len(code) > MaxCodeLength
    THEN Invalid("Invalid code length")
  ELSE IF ~AllIn(code, CodeChars)
    THEN Invalid("Invalid code format")
  ELSE Valid

ToUpperChar(ch) ==
  IF ch \in LowerLetters
    THEN UpperSeq[CHOOSE i \in 1..26 : LowerSeq[i] = ch]
    ELSE ch

toUpperCase(s) == [i \in 1..Len(s) |-> ToUpperChar(s[i])]

Get == <<"G","E","T">>
Post == <<"P","O","S","T">>
Put == <<"P","U","T">>

\* `const allowedMethods = ['GET', 'POST']`
AllowedMethods == {Get, Post}

\* validateMethod whose allowed methods include PUT
validateMethodWithPut(method) ==
  IF toUpperCase(method) \in AllowedMethods \cup {Put}
    THEN Valid
    ELSE Invalid("Method not allowed")

\* validateMethod; the error names the method: `Method ${method} not allowed`
validateMethod(method) ==
  IF toUpperCase(method) \in AllowedMethods
    THEN Valid
    ELSE Invalid("Method not allowed")

\* ------------------------------------------------------------- new URL(...)

\* The WHATWG URL parser of `new URL(input)`, for the inputs buildVincereUrl
\* gives it: "https://" followed by a host of letters, digits, '-', '.' and
\* white space, a '/', and a path.  The result is the URL's scheme, host and
\* path segments, or a failure (the constructor throws).  Percent-encoding of
\* the path's characters, which changes no segment boundary, is left out.

C0ControlOrSpace == {NUL, TAB, LF, SP}
AsciiTabOrNewline == {TAB, LF}

RECURSIVE StripTrailing(_, _)
StripTrailing(s, chars) ==
  IF s # <<>> /\ s[Len(s)] \in chars
    THEN StripTrailing(SubSeq(s, 1, Len(s) - 1), chars)
    ELSE s

RECURSIVE StripLeading(_, _)
StripLeading(s, chars) ==
  IF s # <<>> /\ Head(s) \in chars THEN StripLeading(Tail(s), chars) ELSE s

RECURSIVE Without(_, _)
Without(s, chars) ==
  IF s = <<>> THEN <<>>
  ELSE IF Head(s) \in chars THEN Without(Tail(s), chars)
  ELSE <<Head(s)>> \o Without(Tail(s), chars)

\* the index of the first character of s in chars, or Len(s) + 1
FirstOf(s, chars) ==
  IF \E i \in 1..Len(s) : s[i] \in chars
    THEN CHOOSE i \in 1..Len(s) :
           s[i] \in chars /\ \A j \in 1..(i - 1) : s[j] \notin chars
    ELSE Len(s) + 1

PercentDot == {<<"%","2","e">>, <<"%","2","E">>}
IsSingleDot(seg) == seg = <<".">> \/ seg \in PercentDot
IsDoubleDot(seg) ==
  \/ seg = <<".",".">>
  \/ \E a \in PercentDot :
       seg = <<".">> \o a \/ seg = a \o <<".">> \/ \E b \in PercentDot : seg = a \o b

\* the path state: rest is what follows the '/' that started the path, segs
\* the URL's path so far
RECURSIVE PathState(_, _)
PathState(rest, segs) ==
  LET k == FirstOf(rest, {"/", "\\", "?", "#"})
      seg == SubSeq(rest, 1, k - 1)
      slash == k <= Len(rest) /\ rest[k] \in {"/", "\\"}
      shortened == IF segs = <<>> THEN <<>> ELSE SubSeq(segs, 1, Len(segs) - 1)
      next == IF IsDoubleDot(seg)
                THEN IF slash THEN shortened ELSE Append(shortened, <<>>)
              ELSE IF IsSingleDot(seg)
                THEN IF slash THEN segs ELSE Append(segs, <<>>)
              ELSE Append(segs, seg)
  IN IF slash THEN PathState(SubSeq(rest, k + 1, Len(rest)), next) ELSE next

UrlFailure == [ok |-> FALSE, scheme |-> <<>>, host |-> <<>>, path |-> <<>>]

ParseUrl(input) ==
  LET stripped == StripLeading(StripTrailing(input, C0ControlOrSpace),
                               C0ControlOrSpace)
      cleaned == Without(stripped, AsciiTabOrNewline)
      prefix == Https \o <<":","/","/">>
      after == SubSeq(cleaned, Len(prefix) + 1, Len(cleaned))
      k == FirstOf(after, {"/", "\\", "?", "#"})
      authority == SubSeq(after, 1, k - 1)
      rest == SubSeq(after, k + 1, Len(after))
  IN IF ~startsWith(cleaned, prefix) THEN UrlFailure
     ELSE IF authority = <<>> \/ ~AllIn(authority, Alnum \cup {"-", "."})
       THEN UrlFailure
     ELSE [ok |-> TRUE, scheme |-> Https, host |-> toLowerCase(authority),
           path |-> IF k <= Len(after) /\ after[k] \in {"/", "\\"}
                      THEN PathState(rest, <<>>)
                      ELSE <<<<>>>>]

ApiV2 == <<"a","p","i","/","v","2","/">>

\* buildVincereUrl: the parsed URL of the request, its query apart (the query
\* is set through url.searchParams, which encodes it)
buildVincereUrl(tenantHost, path) ==
  LET noSlash == IF startsWith(path, <<"/">>)
                   THEN SubSeq(path, 2, Len(path)) ELSE path
      cleanPath == IF startsWith(noSlash, ApiV2) THEN noSlash
                   ELSE ApiV2 \o noSlash
  IN ParseUrl(Https \o <<":","/","/">> \o tenantHost \o <<"/">> \o cleanPath)

\* ------------------------------------------------------------ secret names

VincereNs == <<"v","i","n","c","e","r","e">>
RefreshTokenType == <<"r","e","f","r","e","s","h","_","t","o","k","e","n">>
ApiKeyType == <<"a","p","i","_","k","e","y">>

\* tenant.replace(/[^a-zA-Z0-9-]/g, '-')
CleanTenantChar(ch) ==
  IF ch \in LowerLetters \cup UpperLetters \cup Digits \cup {"-"}
    THEN ch
    ELSE "-"

buildSecretName(tenant, secretType) ==
  VincereNs \o <<"/">>
    \o [i \in 1..Len(tenant) |-> CleanTenantChar(tenant[i])]
    \o <<"/">> \o secretType

\* ------------------------------------------------------------------ state

VARIABLES
  now,            \* Date.now(), in ms
  idTokenCache,   \* the Map tenantHost -> [token, expiresAt]
  vault,          \* Key Vault: secret name -> value
  call,           \* the getIdTokenForTenant invocations, by slot
  auths,          \* authorization flows completed so far
  proxy,          \* the request to /vincere/:tenantHost/* being served
  oauth           \* the request to /auth/start or /auth/callback being served

vars == <<now, idTokenCache, vault, call, auths, proxy, oauth>>

\* the requests being served
http == <<proxy, oauth>>

Calls == DOMAIN call

TenantA == <<"a","c","m","e">> \o VincereIo
TenantB == <<"e","c","i">> \o VincereIo

\* the validated tenant hosts the lifecycle manager is called with
Tenants == {TenantA, TenantB}

\* config.security.idTokenCacheSeconds (ID_TOKEN_CACHE_SECONDS, default '50')
idTokenCacheSeconds == 50

\* the messages of the errors getIdTokenForTenant throws
ErrNotAuthorized == "Tenant not authorized - no refresh token found"
ErrKeyVault == "Key Vault error"
\* the message of the store's answer 403 Forbidden under Azure RBAC
ErrKeyVaultForbidden == "Caller is not authorized to perform action on resource."
\* the messages of the errors of the secret store's client, which the adapter
\* rethrows as they are
KeyVaultErrors == {ErrKeyVault, ErrKeyVaultForbidden}
ErrRefreshStatus == "Token refresh failed with status"
ErrRefreshInvalid == "Invalid token refresh response"
ErrTransport == "Network Error"

\* the locals of one invocation, before it starts and after it has ended;
\* attempts counts the attempts of the client at the POST of refreshTokens
NoLocals == [now |-> 0, refreshToken |-> <<>>,
             tokens |-> [id_token |-> <<>>, refresh_token |-> <<>>],
             attempts |-> 0]

\* A slot: pc, the argument, the locals, the outcome (result or error), and
\* what happened to the invocation: its secret store reads, its token endpoint
\* calls, the invocations for the same tenant that were waiting for their
\* secret read when it missed the cache, the token response it got, and the
\* refresh token it presented to the token endpoint.
NoCall ==
  [pc |-> "idle", tenantHost |-> <<>>, locals |-> NoLocals,
   result |-> <<>>, error |-> "",
   vaultReads |-> 0, upstreamCalls |-> 0, overlapped |-> {},
   response |-> NoLocals.tokens, presented |-> <<>>]

InFlightPcs == {"getSecret", "refreshTokens", "setSecret"}

InFlight(c) == call[c].pc \in InFlightPcs

Returns(rec, token) ==
  [rec EXCEPT !.pc = "returned", !.result = token, !.locals = NoLocals]

Throws(rec, error) ==
  [rec EXCEPT !.pc = "threw", !.error = error, !.locals = NoLocals]

\* ------------------------------------------------------------ secret store

\* getSecretOrNull: the value, or <<>> (null) when the secret does not exist
\* or exists with no value
getSecretOrNull(secretName) ==
  IF secretName \in DOMAIN vault /\ vault[secretName] # <<>>
    THEN vault[secretName]
    ELSE <<>>

\* setSecret: the store after client.setSecret(secretName, value)
setSecret(secretName, value) ==
  [n \in DOMAIN vault \cup {secretName} |->
     IF n = secretName THEN value ELSE vault[n]]

\* -------------------------------------------------------------- HTTP client

\* axiosRetry's `retries`
Retries == 3

\* the outcome of an attempt that got no response: a network error or the
\* timeout
NoResponse == 0

RetryStatuses == {429, 502, 503, 504}

\* validateStatus with axios's default: only 2xx resolves
validateStatusDefault(status) == status >= 200 /\ status < 300

\* `validateStatus: () => true`
validateStatus(status) == TRUE

\* retryCondition(error): the error of a rejected attempt
retryCondition(outcome) ==
  IF outcome = NoResponse THEN TRUE ELSE outcome \in RetryStatuses

\* Math.random() * 1000: the least value, and one just under the bound
Jitters == {0, 999}

RECURSIVE Pow2(_)
Pow2(n) == IF n = 0 THEN 1 ELSE 2 * Pow2(n - 1)

\* retryDelay(retryCount), in ms
retryDelay(retryCount, jitter) == Pow2(retryCount) * 1000 + jitter

\* ClientOutcome with one retry more than `retries`
ClientOutcomeOneMoreRetry(attempts, outcome) ==
  IF outcome # NoResponse /\ validateStatus(outcome) THEN "resolve"
  ELSE IF attempts - 1 <= Retries /\ retryCondition(outcome) THEN "retry"
  ELSE "reject"

\* What the client does when an attempt ends, `attempts` being the attempts
\* made so far: the attempt is settled by validateStatus, and axios-retry,
\* which sees only rejected attempts, retries one while retries are left and
\* retryCondition holds.
ClientOutcome(attempts, outcome) ==
  IF outcome # NoResponse /\ validateStatus(outcome) THEN "resolve"
  ELSE IF attempts - 1 < Retries /\ retryCondition(outcome) THEN "retry"
  ELSE "reject"

\* ----------------------------------------------------- identity provider

\* The token response to the refresh sent by invocation c: an id_token the
\* provider has not issued before and, when it rotates, a new refresh_token.
TokenResponse(c, rotate) ==
  [id_token |-> <<"id", "refresh", c>>,
   refresh_token |-> IF rotate THEN <<"rt", "refresh", c>> ELSE <<>>]

\* the refresh_token of the token response to the k-th code exchange
ExchangedRefreshToken(k) == <<"rt", "code", k>>

\* ------------------------------------------------------- token lifecycle

\* CacheHit with the comparison `>=`: an entry is served at its expiry instant
CacheHitAtExpiry(tenantHost, nowMs) ==
  /\ tenantHost \in DOMAIN idTokenCache
  /\ idTokenCache[tenantHost].expiresAt >= nowMs

\* `cached && cached.expiresAt > now`
CacheHit(tenantHost, nowMs) ==
  /\ tenantHost \in DOMAIN idTokenCache
  /\ idTokenCache[tenantHost].expiresAt > nowMs

\* idTokenCache.set(tenantHost, {token, expiresAt})
CacheSet(tenantHost, token, nowMs) ==
  [t \in DOMAIN idTokenCache \cup {tenantHost} |->
     IF t = tenantHost
       THEN [token |-> token, expiresAt |-> nowMs + idTokenCacheSeconds * 1000]
       ELSE idTokenCache[t]]

\* WaitsFor with one lock for all tenants
WaitsForGlobalLock(c) == {d \in Calls \ {c} : InFlight(d)}

\* the invocations that invocation c waits for before it proceeds: none, the
\* function takes no lock and awaits only its own I/O
WaitsFor(c) == {}

\* getIdTokenForTenant up to its first await: the cache check
GetIdTokenForTenant(c, tenantHost) ==
  /\ call[c].pc = "idle"
  /\ WaitsFor(c) = {}
  /\ LET started == [NoCall EXCEPT !.tenantHost = tenantHost]
     IN call' = [call EXCEPT ![c] =
          IF CacheHit(tenantHost, now)
            THEN Returns(started, idTokenCache[tenantHost].token)
            ELSE [started EXCEPT
                    !.pc = "getSecret",
                    !.locals.now = now,
                    !.overlapped =
                       {d \in Calls : /\ call[d].tenantHost = tenantHost
                                      /\ call[d].pc = "getSecret"}]]
  /\ UNCHANGED <<now, idTokenCache, vault, auths>>

\* GetSecretResolves without the `if (!refreshToken)` check
GetSecretResolvesUnchecked(c) ==
  /\ call[c].pc = "getSecret"
  /\ WaitsFor(c) = {}
  /\ call' = [call EXCEPT ![c] =
       [@ EXCEPT !.pc = "refreshTokens",
                 !.locals.refreshToken =
                    getSecretOrNull(buildSecretName(call[c].tenantHost,
                                                    RefreshTokenType)),
                 !.locals.attempts = 1,
                 !.vaultReads = @ + 1,
                 !.upstreamCalls = @ + 1]]
  /\ UNCHANGED <<now, idTokenCache, vault, auths>>

\* `await getSecretOrNull(refreshTokenSecretName)` resolves; on a value the
\* POST of refreshTokens is sent
GetSecretResolves(c) ==
  /\ call[c].pc = "getSecret"
  /\ WaitsFor(c) = {}
  /\ LET refreshToken ==
           getSecretOrNull(buildSecretName(call[c].tenantHost, RefreshTokenType))
         read == [call[c] EXCEPT !.vaultReads = @ + 1]
     IN call' = [call EXCEPT ![c] =
          IF refreshToken = <<>>
            THEN Throws(read, ErrNotAuthorized)
            ELSE [read EXCEPT !.pc = "refreshTokens",
                              !.locals.refreshToken = refreshToken,
                              !.presented = refreshToken,
                              !.locals.attempts = 1,
                              !.upstreamCalls = @ + 1]]
  /\ UNCHANGED <<now, idTokenCache, vault, auths>>

\* client.getSecret fails with an error other than SecretNotFound, whose
\* message is `message`
GetSecretRejectsWith(c, message) ==
  /\ call[c].pc = "getSecret"
  /\ WaitsFor(c) = {}
  /\ call' = [call EXCEPT ![c] =
       Throws([@ EXCEPT !.vaultReads = @ + 1], message)]
  /\ UNCHANGED <<now, idTokenCache, vault, auths>>

\* client.getSecret fails with an error other than SecretNotFound
GetSecretRejects(c) == GetSecretRejectsWith(c, ErrKeyVault)

\* `await refreshTokens(refreshToken)` resolves with a token response: the
\* id_token is cached, and a rotated refresh_token is sent to the store
RefreshTokensResolves(c, rotate) ==
  /\ call[c].pc = "refreshTokens"
  /\ WaitsFor(c) = {}
  /\ LET tokens == TokenResponse(c, rotate)
     IN /\ idTokenCache' =
             CacheSet(call[c].tenantHost, tokens.id_token, call[c].locals.now)
        /\ call' = [call EXCEPT ![c] =
             IF tokens.refresh_token # <<>>
               THEN [@ EXCEPT !.pc = "setSecret", !.locals.tokens = tokens,
                              !.response = tokens]
               ELSE Returns([@ EXCEPT !.response = tokens], tokens.id_token)]
  /\ UNCHANGED <<now, vault, auths>>

\* an attempt of the POST gets no response and the client sends it again
RefreshTokensRetries(c) ==
  /\ call[c].pc = "refreshTokens"
  /\ WaitsFor(c) = {}
  /\ ClientOutcome(call[c].locals.attempts, NoResponse) = "retry"
  /\ call' = [call EXCEPT ![c].locals.attempts = @ + 1]
  /\ UNCHANGED <<now, idTokenCache, vault, auths>>

\* RefreshTokensRejects that drops the refresh token the failed refresh used
RefreshTokensRejectsForgets(c, error) ==
  /\ call[c].pc = "refreshTokens"
  /\ WaitsFor(c) = {}
  /\ call' = [call EXCEPT ![c] = Throws(@, error)]
  /\ vault' = setSecret(buildSecretName(call[c].tenantHost, RefreshTokenType),
                        <<>>)
  /\ UNCHANGED <<now, idTokenCache, auths>>

\* refreshTokens throws: a status other than 200, a response without
\* id_token, or a transport failure after the client's retries (where the
\* attempts are not followed one by one, this step stands for the last of
\* them)
RefreshTokensRejects(c, error) ==
  /\ call[c].pc = "refreshTokens"
  /\ WaitsFor(c) = {}
  /\ call' = [call EXCEPT ![c] = Throws(@, error)]
  /\ UNCHANGED <<now, idTokenCache, vault, auths>>

\* SetSecretResolves that returns without having written the rotated value
SetSecretResolvesUnwritten(c) ==
  /\ call[c].pc = "setSecret"
  /\ WaitsFor(c) = {}
  /\ call' = [call EXCEPT ![c] = Returns(@, call[c].locals.tokens.id_token)]
  /\ UNCHANGED <<now, idTokenCache, vault, auths>>

\* SetSecretResolves that stores the id_token of the response as well
SetSecretResolvesWithIdToken(c) ==
  /\ call[c].pc = "setSecret"
  /\ WaitsFor(c) = {}
  /\ vault' = [n \in DOMAIN vault
                      \cup {buildSecretName(call[c].tenantHost, RefreshTokenType),
                            buildSecretName(call[c].tenantHost, <<"i","d">>)} |->
                IF n = buildSecretName(call[c].tenantHost, RefreshTokenType)
                  THEN call[c].locals.tokens.refresh_token
                ELSE IF n = buildSecretName(call[c].tenantHost, <<"i","d">>)
                  THEN call[c].locals.tokens.id_token
                ELSE vault[n]]
  /\ call' = [call EXCEPT ![c] = Returns(@, call[c].locals.tokens.id_token)]
  /\ UNCHANGED <<now, idTokenCache, auths>>

\* `await setSecret(refreshTokenSecretName, tokens.refresh_token)` resolves
SetSecretResolves(c) ==
  /\ call[c].pc = "setSecret"
  /\ WaitsFor(c) = {}
  /\ vault' = setSecret(buildSecretName(call[c].tenantHost, RefreshTokenType),
                        call[c].locals.tokens.refresh_token)
  /\ call' = [call EXCEPT ![c] = Returns(@, call[c].locals.tokens.id_token)]
  /\ UNCHANGED <<now, idTokenCache, auths>>

\* SetSecretRejects that takes the new id_token out of the cache again
SetSecretRejectsEvicts(c) ==
  /\ call[c].pc = "setSecret"
  /\ WaitsFor(c) = {}
  /\ call' = [call EXCEPT ![c] = Throws(@, ErrKeyVault)]
  /\ idTokenCache' = [t \in DOMAIN idTokenCache \ {call[c].tenantHost} |->
                        idTokenCache[t]]
  /\ UNCHANGED <<now, vault, auths>>

\* client.setSecret fails: the refresh succeeded, the write-back did not
SetSecretRejects(c) ==
  /\ call[c].pc = "setSecret"
  /\ WaitsFor(c) = {}
  /\ call' = [call EXCEPT ![c] = Throws(@, ErrKeyVault)]
  /\ UNCHANGED <<now, idTokenCache, vault, auths>>

\* storeRefreshToken(tenantHost, refreshToken), called by the callback with
\* the refresh credential of its code exchange
\* storeRefreshToken that keeps a refresh token already stored
StoreRefreshTokenIfAbsent(tenantHost) ==
  /\ auths < MaxAuths
  /\ vault' = IF getSecretOrNull(buildSecretName(tenantHost, RefreshTokenType)) # <<>>
                THEN vault
                ELSE setSecret(buildSecretName(tenantHost, RefreshTokenType),
                               ExchangedRefreshToken(auths + 1))
  /\ auths' = auths + 1
  /\ UNCHANGED <<now, idTokenCache, call>>

StoreRefreshToken(tenantHost) ==
  /\ auths < MaxAuths
  /\ vault' = setSecret(buildSecretName(tenantHost, RefreshTokenType),
                        ExchangedRefreshToken(auths + 1))
  /\ auths' = auths + 1
  /\ UNCHANGED <<now, idTokenCache, call>>

\* clearIdTokenCache that clears the whole cache whatever its argument
clearIdTokenCacheOfAll(cache, tenantHost) == <<>>

\* clearIdTokenCache that leaves the entry of its argument in place
clearIdTokenCacheKept(cache, tenantHost) ==
  IF tenantHost # <<>> THEN cache ELSE <<>>

\* the cache after clearIdTokenCache(tenantHost): `if (tenantHost)` is false
\* for a missing argument and for the empty string
clearIdTokenCache(cache, tenantHost) ==
  IF tenantHost # <<>>
    THEN [t \in DOMAIN cache \ {tenantHost} |-> cache[t]]
    ELSE <<>>

\* clearIdTokenCache(tenantHost)
ClearIdTokenCache(tenantHost) ==
  /\ idTokenCache' = clearIdTokenCache(idTokenCache, tenantHost)
  /\ UNCHANGED <<now, vault, call, auths>>

\* clearIdTokenCache()
ClearIdTokenCacheAll == ClearIdTokenCache(<<>>)

\* time passes
Tick ==
  /\ now + TickMs <= MaxNow
  /\ now' = now + TickMs
  /\ UNCHANGED <<idTokenCache, vault, call, auths>>

\* ------------------------------------------------ /vincere/:tenantHost/*

\* ------------------------------------------------------------------ logger

\* An object given to the logger is the set of its leaves: <<path, value>>,
\* the path being the keys from the top of the object down to the value.

\* redact.paths; '*' stands for any one key
RedactPaths ==
  { <<"req", "headers", "authorization">>,
    <<"req", "headers", "x-proxy-token">>,
    <<"req", "headers", "id-token">>,
    <<"req", "headers", "x-api-key">>,
    <<"res", "headers", "authorization">>,
    <<"res", "headers", "id-token">>,
    <<"res", "headers", "x-api-key">>,
    <<"*", "password">>, <<"*", "token">>, <<"*", "secret">>,
    <<"*", "apiKey">>, <<"*", "access_token">>, <<"*", "refresh_token">>,
    <<"*", "id_token">> }

\* censor: '[REDACTED]'
Censor == <<"[REDACTED]">>

\* the path names the node the redact path names
PathMatches(path, redactPath) ==
  /\ Len(path) = Len(redactPath)
  /\ \A i \in 1..Len(path) : redactPath[i] \in {"*", path[i]}

\* a leaf is censored when it is, or lies under, a node of a redact path
Censored(path) ==
  \E redactPath \in RedactPaths, k \in 1..Len(path) :
     PathMatches(SubSeq(path, 1, k), redactPath)

\* what pino writes of an object
redact(fields) ==
  {<<leaf[1], IF Censored(leaf[1]) THEN Censor ELSE leaf[2]>> : leaf \in fields}

\* a record of the given level is written when the logger's level (LOG_LEVEL,
\* or 'info' in production and 'debug' otherwise) lets it through
LevelEnabled(level, logLevel) == level # "debug" \/ logLevel = "debug"

\* logger.<level>(fields, msg)
Logged(rec, level, msg, fields) ==
  IF LevelEnabled(level, rec.logLevel)
    THEN [rec EXCEPT !.log = @ \cup {[level |-> level, msg |-> msg,
                                      fields |-> redact(fields)]}]
    ELSE rec

\* the leaves of a headers object that sits at the given path
HeaderLeaves(path, hdrs) ==
  {<<path \o <<name>>, hdrs[name]>> : name \in DOMAIN hdrs}

\* redactHeaders
redactHeaders(hdrs) ==
  [name \in DOMAIN hdrs |->
     IF name \in {"id-token", "x-api-key", "authorization"} /\ hdrs[name] # <<>>
       THEN Censor ELSE hdrs[name]]

\* The AxiosError of a request that got no response, as the logger writes
\* it: the error carries the request's config, with its headers and data.
AxiosErrorLeaves(hdrs, data) ==
  {<<<<"error", "message">>, <<ErrTransport>>>>,
   <<<<"error", "config", "data">>, data>>}
    \cup HeaderLeaves(<<"error", "config", "headers">>, hdrs)

\* A request to /vincere: the configuration it meets (allowedIps, requirePsk),
\* the client's address, its X-Proxy-Token and Content-Length headers and its
\* parsed body, the parameters of the handler, whether the handler ran, where
\* the request is, the invocation of getIdTokenForTenant it awaits, the
\* id-token and x-api-key headers, the URL and the data of its upstream
\* request, its reads of the api_key secret, the upstream requests it sent
\* (the attempts of the client), the delay before the last of them, the
\* status the upstream answered, its response: status, error, hint and the
\* body relayed, the logger's level and the records written, whether the
\* callback of requestTimeout has answered, and whether the process has
\* exited.
\* the exit code of a process that has not exited
Running == -1

NoProxy ==
  [pc |-> "idle", allowedIps |-> {}, requirePsk |-> FALSE, clientIp |-> <<>>,
   token |-> <<>>, contentLength |-> <<>>, body |-> <<>>, handled |-> FALSE,
   tenantHost |-> <<>>, path |-> <<>>, method |-> <<>>,
   slot |-> 0, idToken |-> <<>>, apiKey |-> <<>>, apiKeyReads |-> 0,
   url |-> UrlFailure, headers |-> <<>>, upstreamRequests |-> 0,
   sentMethod |-> <<>>,
   sentData |-> <<>>, status |-> 0, error |-> "",
   hint |-> <<>>, lastDelay |-> 0, upstreamStatus |-> 0, data |-> <<>>,
   logLevel |-> "info", log |-> {}, timedOut |-> FALSE, exited |-> FALSE,
   nodeEnv |-> "development", forwardedProto |-> <<>>, xProxyTarget |-> <<>>,
   accepting |-> TRUE, shutdown |-> FALSE, exitCode |-> Running]

\* res.status(status).json(...).  When the callback of requestTimeout has
\* answered already, setting the headers throws; thrown in the catch block
\* of an async handler it rejects the handler's promise, which nothing
\* handles: the process's 'unhandledRejection' handler calls process.exit(1).
Respond(rec, status, error) ==
  IF rec.timedOut
    THEN [rec EXCEPT !.pc = "responded", !.exited = TRUE]
    ELSE [rec EXCEPT !.pc = "responded", !.status = status, !.error = error]

\* The callback of req.setTimeout(timeoutMs, ...) runs: it answers 408 and
\* leaves the handler running.  When the handler has answered already,
\* the callback's res.status(408).json throws in an event callback: the
\* process's 'uncaughtException' handler calls process.exit(1).
RequestTimeout ==
  /\ proxy.pc # "idle"
  /\ ~proxy.timedOut
  /\ proxy' = IF proxy.pc = "responded"
                THEN [proxy EXCEPT !.timedOut = TRUE, !.exited = TRUE]
                ELSE [proxy EXCEPT !.timedOut = TRUE, !.status = 408,
                                   !.error = "Request timeout"]
  /\ UNCHANGED <<now, idTokenCache, vault, call, auths, oauth>>

ErrInvalidUrl == "Invalid URL"

\* MentionsNotAuthorized that looks for 'Unauthorized'
MentionsUnauthorized(message) == message = "Unauthorized"

\* `message?.includes('not authorized')`: of the messages thrown, the one of
\* the missing refresh token and the one of the store's answer Forbidden
MentionsNotAuthorized(message) ==
  message \in {ErrNotAuthorized, ErrKeyVaultForbidden}

\* `Visit /auth/start?tenantHost=`
AuthStartHint ==
  <<"V","i","s","i","t"," ","/","a","u","t","h","/","s","t","a","r","t","?",
    "t","e","n","a","n","t","H","o","s","t","=">>

ErrRequestFailed == "Request failed with status code"

\* the catch block of the handler
ProxyFailed(rec, message) ==
  IF MentionsNotAuthorized(message)
    THEN [Respond(rec, 401, "Tenant not authorized. Please complete OAuth flow first.")
            EXCEPT !.hint = AuthStartHint \o rec.tenantHost]
    ELSE Respond(rec, 502, "Failed to proxy request to Vincere")

\* callVincereApi after `await getIdTokenForTenant(tenantHost)`: it goes on
\* when the invocation has ended, in the same turn of the event loop
AfterIdToken(rec, invocation) ==
  IF invocation.pc = "returned"
    THEN [rec EXCEPT !.pc = "awaitApiKey", !.idToken = invocation.result]
  ELSE IF invocation.pc = "threw"
    THEN ProxyFailed(rec, invocation.error)
  ELSE rec

\* the handler up to its first await: validation, then callVincereApi up to
\* `await getIdTokenForTenant(tenantHost)`
ProxyHandler(req, c) ==
  LET hostValidation == validateTenantHost(req.tenantHost)
      pathValidation == validatePath(req.path)
      received == [req EXCEPT !.handled = TRUE]
  IN IF ~hostValidation.valid
       THEN /\ proxy' = Respond(received, 400, hostValidation.error)
            /\ UNCHANGED <<now, idTokenCache, vault, call, auths>>
     ELSE IF ~pathValidation.valid
       THEN /\ proxy' = Respond(received, 400, pathValidation.error)
            /\ UNCHANGED <<now, idTokenCache, vault, call, auths>>
     ELSE /\ GetIdTokenForTenant(c, req.tenantHost)
          /\ proxy' = AfterIdToken([received EXCEPT !.pc = "awaitToken",
                                                    !.slot = c], call'[c])

\* a request that has passed the guards of /vincere reaches the handler
ProxyRequest(c, tenantHost, path, method) ==
  /\ proxy.pc = "idle"
  /\ ProxyHandler([NoProxy EXCEPT !.tenantHost = tenantHost, !.path = path,
                                  !.method = method], c)
  /\ UNCHANGED oauth

\* 'infra/proxy-psk'
PskSecretName ==
  <<"i","n","f","r","a","/","p","r","o","x","y","-","p","s","k">>

\* an allow-list that lets every client through
ipAllowListOpen(allowedIps, clientIp) == TRUE

\* ipAllowList, and `ipOk` of pskGuard
ipAllowList(allowedIps, clientIp) ==
  allowedIps = {} \/ clientIp \in allowedIps

\* methodGuard: the validation whose failure is answered with 405
methodGuard(req) == validateMethod(req.method)

\* noBodyOnGet: whether the request is refused
noBodyOnGet(req) ==
  /\ req.method = Get
  /\ req.contentLength # <<>>
  /\ req.contentLength # <<"0">>

\* methodGuard, noBodyOnGet and proxyRouter, which run in one turn
AfterPskGuard(req, c) ==
  IF ~methodGuard(req).valid
    THEN /\ proxy' = Respond(req, 405, methodGuard(req).error)
         /\ UNCHANGED <<now, idTokenCache, vault, call, auths>>
  ELSE IF noBodyOnGet(req)
    THEN /\ proxy' = Respond(req, 400, "GET requests cannot have a body")
         /\ UNCHANGED <<now, idTokenCache, vault, call, auths>>
  ELSE ProxyHandler(req, c)

\* a request arrives at /vincere, past the rate limiter: ipAllowList, then
\* pskGuard up to `await opts.getPsk()`, or all the guards and the handler
\* where no PSK is required
VincereRequest(c, config, request) ==
  /\ proxy.pc = "idle"
  /\ LET req == [NoProxy EXCEPT !.allowedIps = config.allowedIps,
                                !.requirePsk = config.requirePsk,
                                !.logLevel = config.logLevel,
                                !.clientIp = request.clientIp,
                                !.token = request.token,
                                !.contentLength = request.contentLength,
                                !.body = request.body,
                                !.tenantHost = request.tenantHost,
                                !.path = request.path,
                                !.method = request.method]
     IN IF ~ipAllowList(req.allowedIps, req.clientIp)
          THEN /\ proxy' = Respond(req, 403, "Forbidden")
               /\ UNCHANGED <<now, idTokenCache, vault, call, auths>>
        ELSE IF ~req.requirePsk
          THEN AfterPskGuard(req, c)
        ELSE /\ proxy' = [req EXCEPT !.pc = "awaitPsk", !.slot = c]
             /\ UNCHANGED <<now, idTokenCache, vault, call, auths>>
  /\ UNCHANGED oauth

\* the PSK provisioned when the service started
StoredPsk == <<"psk", "stored", 0>>

\* getPsk that gives the PSK read when the service started
getPskAtStart == StoredPsk

\* getPsk that gives the X-Proxy-Token of the request when no PSK is stored
getPskOrToken ==
  IF getSecretOrNull(PskSecretName) # <<>>
    THEN getSecretOrNull(PskSecretName) ELSE proxy.token

\* `getPsk: async () => getSecretOrNull('infra/proxy-psk')`
getPsk == getSecretOrNull(PskSecretName)

\* `await opts.getPsk()` resolves
PskResolves ==
  /\ proxy.pc = "awaitPsk"
  /\ LET expected == getPsk
     IN IF expected = <<>>
          THEN /\ proxy' = Respond(proxy, 500, "PSK check failed")
               /\ UNCHANGED <<now, idTokenCache, vault, call, auths>>
        ELSE IF proxy.token # expected
          THEN /\ proxy' = Respond(proxy, 401, "Unauthorized")
               /\ UNCHANGED <<now, idTokenCache, vault, call, auths>>
        ELSE AfterPskGuard(proxy, proxy.slot)
  /\ UNCHANGED oauth

\* `await opts.getPsk()` rejects
PskRejects ==
  /\ proxy.pc = "awaitPsk"
  /\ proxy' = Respond(proxy, 500, "PSK check failed")
  /\ UNCHANGED <<now, idTokenCache, vault, call, auths, oauth>>

\* headers that carry x-api-key whether or not there is an API key
headersWithApiKey(idToken, apiKey) ==
  ("id-token" :> idToken) @@ ("Content-Type" :> <<"application/json">>)
    @@ ("Accept" :> <<"application/json">>) @@ ("x-api-key" :> apiKey)

\* the headers of the upstream request
headers(idToken, apiKey) ==
  LET base == ("id-token" :> idToken)
                @@ ("Content-Type" :> <<"application/json">>)
                @@ ("Accept" :> <<"application/json">>)
  IN IF apiKey # <<>> THEN base @@ ("x-api-key" :> apiKey) ELSE base

\* `await getSecretOrNull(apiKeySecretName)` resolves: the URL is built and
\* the request is sent
ApiKeyResolves ==
  /\ proxy.pc = "awaitApiKey"
  /\ LET apiKey == getSecretOrNull(buildSecretName(proxy.tenantHost, ApiKeyType))
         url == buildVincereUrl(proxy.tenantHost, proxy.path)
         read == [proxy EXCEPT !.apiKey = apiKey, !.apiKeyReads = @ + 1]
         hdrs == headers(proxy.idToken, apiKey)
         sent == [read EXCEPT
                    !.pc = "awaitUpstream", !.url = url,
                    !.headers = hdrs,
                    !.sentMethod = proxy.method,
                    !.sentData = IF proxy.method = Post
                                   THEN proxy.body ELSE <<>>,
                    !.upstreamRequests = @ + 1]
     IN proxy' = IF ~url.ok
                   THEN ProxyFailed(read, ErrInvalidUrl)
                   ELSE Logged(Logged(sent, "debug", "Sending request to Vincere",
                                      HeaderLeaves(<<"headers">>, redactHeaders(hdrs))),
                               "debug", "Outgoing HTTP request",
                               HeaderLeaves(<<"headers">>, hdrs))
  /\ UNCHANGED <<now, idTokenCache, vault, call, auths, oauth>>

\* the read of the api_key secret fails with an error whose message is
\* `message`
ApiKeyRejectsWith(message) ==
  /\ proxy.pc = "awaitApiKey"
  /\ proxy' = ProxyFailed([proxy EXCEPT !.apiKeyReads = @ + 1], message)
  /\ UNCHANGED <<now, idTokenCache, vault, call, auths, oauth>>

\* the read of the api_key secret fails
ApiKeyRejects == ApiKeyRejectsWith(ErrKeyVault)

\* response.data of the upstream's answer
UpstreamData(status) == <<"data", status>>

\* an attempt of the upstream request ends and the client sends it again,
\* after retryDelay
UpstreamRetries(outcome, jitter) ==
  /\ proxy.pc = "awaitUpstream"
  /\ ClientOutcome(proxy.upstreamRequests, outcome) = "retry"
  /\ proxy' = [proxy EXCEPT
                 !.upstreamRequests = @ + 1,
                 !.lastDelay = retryDelay(proxy.upstreamRequests, jitter)]
  /\ UNCHANGED <<now, idTokenCache, vault, call, auths, oauth>>

\* the x-proxy-target header of the response to a resolved request
xProxyTarget(tenantHost, path) ==
  Https \o <<":","/","/">> \o tenantHost \o <<"/">> \o ApiV2 \o path

\* the upstream answers and the client settles the request: the handler
\* relays the status of a resolved request
UpstreamResponds(status) ==
  /\ proxy.pc = "awaitUpstream"
  /\ ClientOutcome(proxy.upstreamRequests, status) # "retry"
  /\ LET answered == [proxy EXCEPT !.upstreamStatus = status]
     IN proxy' = IF ClientOutcome(proxy.upstreamRequests, status) = "resolve"
                   THEN [Respond(answered, status, "")
                           EXCEPT !.data = UpstreamData(status),
                                  !.xProxyTarget =
                                    xProxyTarget(proxy.tenantHost, proxy.path)]
                   ELSE ProxyFailed(answered, ErrRequestFailed)
  /\ UNCHANGED <<now, idTokenCache, vault, call, auths, oauth>>

\* the last attempt of the upstream request gets no response
UpstreamFails ==
  /\ proxy.pc = "awaitUpstream"
  /\ ClientOutcome(proxy.upstreamRequests, NoResponse) = "reject"
  /\ LET error == AxiosErrorLeaves(proxy.headers, proxy.sentData)
     IN proxy' = ProxyFailed(
                   Logged(Logged(Logged(proxy, "error", "HTTP request failed", error),
                                 "error", "Vincere API call failed", error),
                          "error", "Proxy request failed", error),
                   ErrTransport)
  /\ UNCHANGED <<now, idTokenCache, vault, call, auths, oauth>>

\* req.secure of a request to the server of app.listen, which accepts plain
\* HTTP only: with `trust proxy` set, the protocol is the X-Forwarded-Proto
\* header's where the request has one, and 'http' otherwise
secure(req) == req.forwardedProto = Https

\* forceHttps: whether the request is passed on
forceHttps(req) ==
  \/ secure(req)
  \/ req.forwardedProto = Https
  \/ req.nodeEnv # "production"

Healthz == <<"h","e","a","l","t","h","z">>

\* the body of the answer of /healthz, less the time and the version
HealthOk == <<"status", "ok">>

\* GET /healthz: the global middleware, of which forceHttps alone can answer
\* a request without a body, then the handler
HealthzRequest(config, request) ==
  /\ proxy.pc = "idle"
  /\ LET req == [NoProxy EXCEPT !.allowedIps = config.allowedIps,
                                !.requirePsk = config.requirePsk,
                                !.nodeEnv = config.nodeEnv,
                                !.clientIp = request.clientIp,
                                !.token = request.token,
                                !.forwardedProto = request.forwardedProto,
                                !.path = Healthz,
                                !.method = Get]
     IN proxy' = IF ~forceHttps(req)
                   THEN Respond(req, 403, "HTTPS required")
                   ELSE [Respond(req, 200, "") EXCEPT !.data = HealthOk]
  /\ UNCHANGED <<now, idTokenCache, vault, call, auths, oauth>>

\* the response has been sent: the next request can be served
VincereRequestEnds ==
  /\ proxy.pc = "responded"
  /\ ~proxy.exited
  /\ proxy' = NoProxy
  /\ UNCHANGED <<now, idTokenCache, vault, call, auths, oauth>>

\* the PSK after `az keyvault secret set --name "infra/proxy-psk"`
RotatedPsk == <<"psk", "rotated", 0>>

\* the operator rotates the PSK
RotatePsk ==
  /\ getSecretOrNull(PskSecretName) = StoredPsk
  /\ vault' = setSecret(PskSecretName, RotatedPsk)
  /\ UNCHANGED <<now, idTokenCache, call, auths, proxy, oauth>>

\* ------------------------------------------------------------- shutdown

\* The connection of the request being served is open from the request's
\* arrival until it closes after the response: proxy.pc # "idle".

\* SIGTERM or SIGINT: `shutdown` runs.  server.close stops the server from
\* accepting connections and calls back, with process.exit(0), when no
\* connection is open: at once where none is.  The timer of the forced
\* shutdown is set.
Signal ==
  /\ proxy.exitCode = Running
  /\ ~proxy.shutdown
  /\ proxy' = [proxy EXCEPT !.accepting = FALSE, !.shutdown = TRUE,
                            !.exitCode = IF proxy.pc = "idle" THEN 0 ELSE Running]
  /\ UNCHANGED <<now, idTokenCache, vault, call, auths, oauth>>

\* the connection closes after the response; when the server is closing,
\* it was the last one: the callback of server.close runs
ConnectionCloses ==
  /\ proxy.exitCode = Running
  /\ proxy.pc = "responded"
  /\ proxy' = [NoProxy EXCEPT !.accepting = proxy.accepting,
                              !.shutdown = proxy.shutdown,
                              !.exitCode = IF proxy.shutdown THEN 0 ELSE Running]
  /\ UNCHANGED <<now, idTokenCache, vault, call, auths, oauth>>

\* a forced-shutdown timer that does not keep the process going and fires
\* only when nothing else is left to do
ForceTimerFiresWhenIdle ==
  /\ proxy.exitCode = Running
  /\ proxy.shutdown
  /\ proxy.pc = "idle"
  /\ proxy' = [proxy EXCEPT !.exitCode = 1]
  /\ UNCHANGED <<now, idTokenCache, vault, call, auths, oauth>>

\* the callback of setTimeout(..., 30000) runs: process.exit(1)
ForceTimerFires ==
  /\ proxy.exitCode = Running
  /\ proxy.shutdown
  /\ proxy' = [proxy EXCEPT !.exitCode = 1]
  /\ UNCHANGED <<now, idTokenCache, vault, call, auths, oauth>>

\* ------------------------------------------------------------------ /auth

\* new Uint8Array(32)
NonceBytes == 32

\* values of crypto.getRandomValues: all bits clear, all bits set, and bytes
\* whose base64 has '+' and '/'
RandomValues == {Rep(0, NonceBytes), Rep(255, NonceBytes), Rep(251, NonceBytes)}

DigitSeq == <<"0","1","2","3","4","5","6","7","8","9">>

Base64Alphabet == UpperSeq \o LowerSeq \o DigitSeq \o <<"+", "/">>

Base64Char(sextet) == Base64Alphabet[sextet + 1]

\* Buffer.from(bytes).toString('base64')
RECURSIVE toBase64(_)
toBase64(bytes) ==
  IF Len(bytes) = 0 THEN <<>>
  ELSE IF Len(bytes) = 1
    THEN <<Base64Char(bytes[1] \div 4), Base64Char((bytes[1] % 4) * 16),
           "=", "=">>
  ELSE IF Len(bytes) = 2
    THEN <<Base64Char(bytes[1] \div 4),
           Base64Char((bytes[1] % 4) * 16 + bytes[2] \div 16),
           Base64Char((bytes[2] % 16) * 4), "=">>
  ELSE <<Base64Char(bytes[1] \div 4),
         Base64Char((bytes[1] % 4) * 16 + bytes[2] \div 16),
         Base64Char((bytes[2] % 16) * 4 + bytes[3] \div 64),
         Base64Char(bytes[3] % 64)>>
       \o toBase64(SubSeq(bytes, 4, Len(bytes)))

\* .replace(/\+/g, '-').replace(/\//g, '_').replace(/=/g, '')
toBase64Url(s) ==
  LET kept == Without(s, {"="})
  IN [i \in 1..Len(kept) |->
        IF kept[i] = "+" THEN "-" ELSE IF kept[i] = "/" THEN "_" ELSE kept[i]]

\* generateStateNonce with the tenant before the nonce
generateStateNonceTenantFirst(randomBytes, tenantHost) ==
  tenantHost \o <<":">> \o toBase64Url(toBase64(randomBytes))

generateStateNonce(randomBytes, tenantHost) ==
  LET nonce == toBase64Url(toBase64(randomBytes))
  IN nonce \o <<":">> \o tenantHost

\* the nonces generateStateNonce draws
Nonces == {toBase64Url(toBase64(randomBytes)) : randomBytes \in RandomValues}

\* The request of an /auth handler: the route, its query parameters, where
\* the handler is, the tenant it took from the state, the code exchanges it
\* sent, and its response: status, error, the state token it issued and
\* whether it redirected to the authorization URL carrying that state.
NoOAuth ==
  [pc |-> "idle", route |-> "", tenantHost |-> <<>>, code |-> <<>>,
   state |-> <<>>, errorParam |-> <<>>, tenant |-> <<>>, exchanges |-> 0,
   refreshToken |-> <<>>, status |-> 0, error |-> "", issuedState |-> <<>>,
   redirected |-> FALSE, issued |-> {}, exchanged |-> <<>>, served |-> 0,
   attempts |-> 0]

\* A new request.  What the routes did for the requests before it is kept
\* with it: the states /auth/start issued, the states for which
\* /auth/callback sent a code exchange, and the number of requests served.
AuthRequest ==
  [NoOAuth EXCEPT !.issued = oauth.issued, !.exchanged = oauth.exchanged,
                  !.served = oauth.served]

\* AuthStart without the validation of the tenant host
AuthStartUnvalidated(tenantHost, randomBytes) ==
  /\ oauth.pc = "idle"
  /\ oauth' = [AuthRequest EXCEPT
                  !.route = "/start", !.tenantHost = tenantHost,
                  !.pc = "responded", !.status = 302,
                  !.issuedState = generateStateNonce(randomBytes, tenantHost),
                  !.issued = @ \cup {generateStateNonce(randomBytes, tenantHost)},
                  !.redirected = TRUE]
  /\ UNCHANGED <<now, idTokenCache, vault, call, auths, proxy>>

\* GET /auth/start?tenantHost=<host>
AuthStart(tenantHost, randomBytes) ==
  /\ oauth.pc = "idle"
  /\ LET req == [AuthRequest EXCEPT !.route = "/start", !.tenantHost = tenantHost]
         validation == validateTenantHost(tenantHost)
     IN oauth' =
          IF ~validation.valid
            THEN [req EXCEPT !.pc = "responded", !.status = 400,
                             !.error = validation.error]
            ELSE [req EXCEPT !.pc = "responded", !.status = 302,
                             !.issuedState = generateStateNonce(randomBytes, tenantHost),
                             !.issued = @ \cup {generateStateNonce(randomBytes, tenantHost)},
                             !.redirected = TRUE]
  /\ UNCHANGED <<now, idTokenCache, vault, call, auths, proxy>>

\* GET /auth/callback?code=...&state=<nonce:tenantHost>, up to
\* `await exchangeCodeForTokens(code, tenantHost)`: on valid parameters the
\* POST of the code exchange is sent
AuthCallback(code, state, errorParam) ==
  /\ oauth.pc = "idle"
  /\ LET req == [AuthRequest EXCEPT !.route = "/callback", !.code = code,
                                    !.state = state, !.errorParam = errorParam]
         codeValidation == validateAuthCode(code)
         stateValidation == validateOAuthState(state)
     IN oauth' =
          IF errorParam # <<>>
            THEN [req EXCEPT !.pc = "responded", !.status = 400,
                             !.error = "Authorization Failed"]
          ELSE IF ~codeValidation.valid
            THEN [req EXCEPT !.pc = "responded", !.status = 400,
                             !.error = codeValidation.error]
          ELSE IF ~stateValidation.valid
            THEN [req EXCEPT !.pc = "responded", !.status = 400,
                             !.error = stateValidation.error]
          ELSE [req EXCEPT !.pc = "awaitExchange",
                           !.tenant = split(state, ":")[2],
                           !.exchanges = @ + 1,
                           !.attempts = 1,
                           !.exchanged = Append(@, state)]
  /\ UNCHANGED <<now, idTokenCache, vault, call, auths, proxy>>

\* an attempt of the POST of the code exchange gets no response and the
\* client sends it again
ExchangeRetries ==
  /\ oauth.pc = "awaitExchange"
  /\ ClientOutcome(oauth.attempts, NoResponse) = "retry"
  /\ oauth' = [oauth EXCEPT !.attempts = @ + 1]
  /\ UNCHANGED <<now, idTokenCache, vault, call, auths, proxy>>

\* the token endpoint answers 200 with refresh_token and id_token:
\* storeRefreshToken sends the write of the refresh token
ExchangeResolves ==
  /\ oauth.pc = "awaitExchange"
  /\ oauth' = [oauth EXCEPT !.pc = "awaitStore",
                            !.refreshToken = ExchangedRefreshToken(auths + 1)]
  /\ UNCHANGED <<now, idTokenCache, vault, call, auths, proxy>>

\* exchangeCodeForTokens throws: a status other than 200, a response without
\* refresh_token or id_token, or a transport failure after the client's
\* retries
ExchangeRejects ==
  /\ oauth.pc = "awaitExchange"
  /\ oauth' = [oauth EXCEPT !.pc = "responded", !.status = 500,
                            !.error = "Authorization Failed"]
  /\ UNCHANGED <<now, idTokenCache, vault, call, auths, proxy>>

\* `await storeRefreshToken(tenantHost, refreshToken)` resolves: the success
\* page is served
StoreResolves ==
  /\ oauth.pc = "awaitStore"
  /\ StoreRefreshToken(oauth.tenant)
  /\ oauth' = [oauth EXCEPT !.pc = "responded", !.status = 200]
  /\ UNCHANGED proxy

\* the write of the refresh token fails
StoreRejects ==
  /\ oauth.pc = "awaitStore"
  /\ oauth' = [oauth EXCEPT !.pc = "responded", !.status = 500,
                            !.error = "Authorization Failed"]
  /\ UNCHANGED <<now, idTokenCache, vault, call, auths, proxy>>

\* the response has been sent: the next request can be served
AuthRequestEnds ==
  /\ oauth.pc = "responded"
  /\ oauth.served + 1 < MaxRequests
  /\ oauth' = [AuthRequest EXCEPT !.served = @ + 1]
  /\ UNCHANGED <<now, idTokenCache, vault, call, auths, proxy>>

\* ------------------------------------------------------- specifications

InitWith(slots) ==
  /\ now = 0
  /\ idTokenCache = <<>>
  /\ vault = <<>>
  /\ call = [c \in 1..slots |-> NoCall]
  /\ auths = 0
  /\ proxy = NoProxy
  /\ oauth = NoOAuth

Init == InitWith(NumCalls)

RefreshErrors == {ErrRefreshStatus, ErrRefreshInvalid, ErrTransport}

CallStep(c) ==
  \/ GetSecretResolves(c)
  \/ GetSecretRejects(c)
  \/ \E rotate \in BOOLEAN : RefreshTokensResolves(c, rotate)
  \/ \E error \in RefreshErrors : RefreshTokensRejects(c, error)
  \/ SetSecretResolves(c)
  \/ SetSecretRejects(c)

\* slots are taken in order: they are interchangeable
NextSlot(c) == \A d \in Calls : d < c => call[d].pc # "idle"

\* Concurrent callers: any interleaving of the invocations' steps with each
\* other, with authorizations, cache clears and the clock.
Next ==
  \/ \E c \in Calls, t \in Tenants :
       NextSlot(c) /\ GetIdTokenForTenant(c, t) /\ UNCHANGED http
  \/ \E c \in Calls : CallStep(c) /\ UNCHANGED http
  \/ \E t \in Tenants : StoreRefreshToken(t) /\ UNCHANGED http
  \/ \E t \in Tenants : ClearIdTokenCache(t) /\ UNCHANGED http
  \/ ClearIdTokenCacheAll /\ UNCHANGED http
  \/ Tick /\ UNCHANGED http

Spec == Init /\ [][Next]_vars

\* Sequential callers: an operation starts only when no invocation is in
\* flight.
Quiet == \A c \in Calls : ~InFlight(c)

InitSeq == InitWith(SeqCalls)

NextSeq ==
  \/ \E c \in Calls, t \in Tenants :
       Quiet /\ NextSlot(c) /\ GetIdTokenForTenant(c, t) /\ UNCHANGED http
  \/ \E c \in Calls : CallStep(c) /\ UNCHANGED http
  \/ \E t \in Tenants : Quiet /\ StoreRefreshToken(t) /\ UNCHANGED http
  \/ \E t \in Tenants : Quiet /\ ClearIdTokenCache(t) /\ UNCHANGED http
  \/ Quiet /\ ClearIdTokenCacheAll /\ UNCHANGED http
  \/ Tick /\ UNCHANGED http

SpecSeq == InitSeq /\ [][NextSeq]_vars

\* ---------------------------------------------------------- request inputs

Methods == {Get, Post}

EvilCom == <<"e","v","i","l",".","c","o","m">>

\* values of the tenantHost query parameter and of the tenant of a state
HostInputs ==
  { <<>>,
    TenantA,
    <<"A","c","m","e",".","V","i","n","c","e","r","e",".","I","O">>,
    <<SP>> \o TenantA,
    <<TAB>> \o TenantA,
    TenantA \o <<LF>>,
    <<"1","0">> \o VincereIo,
    <<"a","_","b">> \o VincereIo,
    VincereIo,
    EvilCom,
    <<"v","i","n","c","e","r","e",".","i","o">>,
    <<"l","o","c","a","l","h","o","s","t">>,
    <<"1","2","7",".","0",".","0",".","1">>,
    TenantA \o <<".">> \o EvilCom,
    EvilCom \o <<"/">> \o VincereIo }

\* values of the :tenantHost parameter
ProxyHostInputs ==
  { TenantA,
    <<"A","c","m","e",".","V","i","n","c","e","r","e",".","I","O">>,
    <<SP>> \o TenantA,
    TenantA \o <<LF>>,
    <<"1","0">> \o VincereIo,
    EvilCom,
    <<"l","o","c","a","l","h","o","s","t">>,
    TenantA \o <<".">> \o EvilCom }

\* the pieces the wildcard of a request is made of, after Express has decoded
\* its percent-escapes
PathPieces ==
  { <<"x">>, <<".">>, <<"/">>, <<"\\">>, <<"?">>, <<"%","2","e">>,
    <<TAB>>, <<SP>>, <<NUL>>, ApiV2, Http \o <<":","/","/">> }

RECURSIVE PathsOf(_)
PathsOf(n) ==
  IF n = 0 THEN {<<>>}
  ELSE LET shorter == PathsOf(n - 1)
       IN shorter \cup {p \o piece : p \in shorter, piece \in PathPieces}

\* values of the wildcard: up to MaxPathPieces pieces
PathInputs == PathsOf(MaxPathPieces)

\* values of the code parameter: absent, at and around the length limits, and
\* with characters in and out of the alphabet
CodeInputs ==
  { <<>>,
    Rep("c", MinCodeLength - 1),
    Rep("c", MinCodeLength),
    Rep("c", MaxCodeLength),
    Rep("c", MaxCodeLength + 1),
    Rep("c", MinCodeLength) \o <<"<">>,
    Rep("c", MinCodeLength) \o <<"-","_","=","+","/">> }

NonceInputs ==
  Nonces \cup
  { <<>>,
    Rep("n", MinNonceLength - 1),
    Rep("n", MinNonceLength),
    Rep("n", MaxNonceLength),
    Rep("n", MaxNonceLength + 1),
    Rep("n", MinNonceLength) \o <<"!">> }

\* values of the state parameter: absent, and of one, two and three parts
StateInputs ==
  {<<>>}
  \cup NonceInputs
  \cup {nonce \o <<":">> \o host : nonce \in NonceInputs, host \in HostInputs}
  \cup {nonce \o <<":">> \o TenantA \o <<":">> \o <<"4","4","3">> :
          nonce \in NonceInputs}

\* values of the error parameter: absent, or the provider's error
ErrorInputs == {<<>>, <<"a","c","c","e","s","s","_","d","e","n","i","e","d">>}

\* ---------------------------------------------------- specification: proxy

AcceptedHosts == {h \in ProxyHostInputs : validateTenantHost(h).valid}

StoredRefreshToken == <<"rt", "stored", 0>>
StoredApiKey == <<"key", "stored", 0>>
StoredIdToken == <<"id", "stored", 0>>

\* the refresh tokens of earlier authorizations and the API keys provisioned
\* for the tenants
StoredSecrets(secretTypes) ==
  [name \in {buildSecretName(h, type) : h \in AcceptedHosts, type \in secretTypes}
     |-> IF \E h \in AcceptedHosts : name = buildSecretName(h, RefreshTokenType)
           THEN StoredRefreshToken ELSE StoredApiKey]

\* One proxy request, to a service where no tenant is authorized, where the
\* tenants are authorized, where they also have API keys, or where tenant A's
\* id_token is cached as well.
InitProxy ==
  /\ now = 0
  /\ auths = 0
  /\ call = [c \in 1..1 |-> NoCall]
  /\ proxy = NoProxy
  /\ oauth = NoOAuth
  /\ \/ vault = <<>> /\ idTokenCache = <<>>
     \/ vault = StoredSecrets({RefreshTokenType}) /\ idTokenCache = <<>>
     \/ vault = StoredSecrets({RefreshTokenType, ApiKeyType}) /\ idTokenCache = <<>>
     \/ /\ vault = StoredSecrets({RefreshTokenType, ApiKeyType})
        /\ idTokenCache = [t \in {TenantA} |->
             [token |-> StoredIdToken, expiresAt |-> idTokenCacheSeconds * 1000]]

\* a step of the invocation the handler awaits, and the handler's resumption
\* when the invocation ends
ProxyTokenStep(c) ==
  /\ proxy.pc = "awaitToken"
  /\ proxy.slot = c
  /\ CallStep(c)
  /\ proxy' = AfterIdToken(proxy, call'[c])
  /\ UNCHANGED oauth

UpstreamStatuses == {200, 404, 429, 503}

NextProxy ==
  \/ /\ proxy.pc = "idle"
     /\ \E c \in Calls, h \in ProxyHostInputs, p \in PathInputs, m \in Methods :
          ProxyRequest(c, h, p, m)
  \/ \E c \in Calls : ProxyTokenStep(c)
  \/ ApiKeyResolves
  \/ ApiKeyRejects
  \/ \E status \in UpstreamStatuses : UpstreamResponds(status)
  \/ \E outcome \in UpstreamStatuses \cup {NoResponse}, jitter \in Jitters :
       UpstreamRetries(outcome, jitter)
  \/ UpstreamFails

SpecProxy == InitProxy /\ [][NextProxy]_vars

\* ----------------------------------------------------- specification: auth

\* One request to /auth/start or /auth/callback.
NextAuth ==
  \/ /\ oauth.pc = "idle"
     /\ \E h \in HostInputs, randomBytes \in RandomValues : AuthStart(h, randomBytes)
  \/ /\ oauth.pc = "idle"
     /\ \E code \in CodeInputs, state \in StateInputs, e \in ErrorInputs :
          AuthCallback(code, state, e)
  \/ ExchangeResolves
  \/ ExchangeRejects
  \/ StoreResolves
  \/ StoreRejects

SpecAuth == InitWith(1) /\ [][NextAuth]_vars

\* ----------------------------------------------- specification: auth flow

\* a state of the right form that /auth/start never issued
ForgedState == Rep("n", MinNonceLength) \o <<":">> \o TenantA

\* Requests to /auth/start and /auth/callback, one after the other: the
\* callbacks carry a state /auth/start issued, or a forged one.
NextFlow ==
  \/ /\ oauth.pc = "idle"
     /\ \E h \in {TenantA, EvilCom}, randomBytes \in RandomValues :
          AuthStart(h, randomBytes)
  \/ /\ oauth.pc = "idle"
     /\ \E state \in oauth.issued \cup {ForgedState} :
          AuthCallback(Rep("c", MinCodeLength), state, <<>>)
  \/ ExchangeResolves
  \/ ExchangeRejects
  \/ StoreResolves
  \/ StoreRejects
  \/ AuthRequestEnds

SpecFlow == InitWith(1) /\ [][NextFlow]_vars

\* --------------------------------------------- specification: HTTP client

\* a step of an invocation, the attempts of its POST followed one by one: a
\* transport failure ends the invocation only when the client gives up
ClientCallStep(c) ==
  \/ RefreshTokensRetries(c)
  \/ /\ CallStep(c)
     /\ call'[c].error = ErrTransport =>
          ClientOutcome(call[c].locals.attempts, NoResponse) = "reject"

\* One proxy request for tenant A, which is authorized, and one callback, the
\* attempts of the shared client at the refresh, at the upstream request and
\* at the code exchange followed one by one.
InitClient ==
  /\ now = 0
  /\ auths = 0
  /\ call = [c \in 1..1 |-> NoCall]
  /\ proxy = NoProxy
  /\ oauth = NoOAuth
  /\ idTokenCache = <<>>
  /\ vault = StoredSecrets({RefreshTokenType})

NextClient ==
  \/ /\ proxy.pc = "idle"
     /\ \E m \in Methods : ProxyRequest(1, TenantA, <<"x">>, m)
  \/ /\ proxy.pc = "awaitToken"
     /\ ClientCallStep(proxy.slot)
     /\ proxy' = AfterIdToken(proxy, call'[proxy.slot])
     /\ UNCHANGED oauth
  \/ ApiKeyResolves
  \/ ApiKeyRejects
  \/ \E status \in UpstreamStatuses : UpstreamResponds(status)
  \/ \E outcome \in UpstreamStatuses \cup {NoResponse}, jitter \in Jitters :
       UpstreamRetries(outcome, jitter)
  \/ UpstreamFails
  \/ /\ oauth.pc = "idle"
     /\ AuthCallback(Rep("c", MinCodeLength), ForgedState, <<>>)
  \/ ExchangeRetries
  \/ ExchangeResolves
  \/ ExchangeRejects
  \/ StoreResolves
  \/ StoreRejects

SpecClient == InitClient /\ [][NextClient]_vars

\* ------------------------------------------------- specification: process

GuardHosts == {TenantA, EvilCom}

GuardPaths == {<<"x">>, <<".", ".">>}

\* One proxy request, as in SpecProxy, and the timer of requestTimeout; after
\* process.exit nothing runs.
NextProcess ==
  /\ ~proxy.exited
  /\ \/ /\ proxy.pc = "idle"
        /\ \E h \in GuardHosts, p \in GuardPaths, m \in Methods :
             ProxyRequest(1, h, p, m)
     \/ ProxyTokenStep(1)
     \/ ApiKeyResolves
     \/ ApiKeyRejects
     \/ \E status \in UpstreamStatuses : UpstreamResponds(status)
     \/ UpstreamRetries(NoResponse, 0)
     \/ UpstreamFails
     \/ RequestTimeout

SpecProcess == InitProxy /\ [][NextProcess]_vars

\* ------------------------------------------ specification: re-authorization

\* Sequential callers, as in SpecSeq, to a service where tenant A has been
\* authorized before: the authorization that completes is a re-authorization
\* for tenant A and a first one for tenant B.
InitReauth ==
  /\ now = 0
  /\ idTokenCache = <<>>
  /\ vault = [name \in {buildSecretName(TenantA, RefreshTokenType)} |->
                StoredRefreshToken]
  /\ call = [c \in 1..SeqCalls |-> NoCall]
  /\ auths = 0
  /\ proxy = NoProxy
  /\ oauth = NoOAuth

SpecReauth == InitReauth /\ [][NextSeq]_vars

\* ------------------------------------------------- specification: errors

\* One proxy request for tenant A, as in SpecProxy, the errors of the secret
\* store's client carrying any of the store's messages.
NextErrors ==
  \/ /\ proxy.pc = "idle"
     /\ \E m \in Methods : ProxyRequest(1, TenantA, <<"x">>, m)
  \/ ProxyTokenStep(1)
  \/ /\ proxy.pc = "awaitToken"
     /\ \E message \in KeyVaultErrors : GetSecretRejectsWith(1, message)
     /\ proxy' = AfterIdToken(proxy, call'[1])
     /\ UNCHANGED oauth
  \/ ApiKeyResolves
  \/ \E message \in KeyVaultErrors : ApiKeyRejectsWith(message)
  \/ \E status \in UpstreamStatuses : UpstreamResponds(status)
  \/ \E outcome \in UpstreamStatuses \cup {NoResponse}, jitter \in Jitters :
       UpstreamRetries(outcome, jitter)
  \/ UpstreamFails

SpecErrors == InitProxy /\ [][NextErrors]_vars

\* ----------------------------------------------- specification: shutdown

\* One proxy request, as in SpecProxy, and a shutdown signal at any moment:
\* before the request, while it is served, after its response or after its
\* connection has closed.  After process.exit nothing runs.  A connection may
\* stay open for ever, and so may an await; the timer, once set, fires.
NextShutdown ==
  \/ /\ proxy.exitCode = Running
     /\ proxy.pc = "idle"
     /\ proxy.accepting
     /\ \E h \in GuardHosts, m \in Methods : ProxyRequest(1, h, <<"x">>, m)
  \/ proxy.exitCode = Running /\ ProxyTokenStep(1)
  \/ proxy.exitCode = Running /\ ApiKeyResolves
  \/ proxy.exitCode = Running /\ ApiKeyRejects
  \/ /\ proxy.exitCode = Running
     /\ \E status \in UpstreamStatuses : UpstreamResponds(status)
  \/ proxy.exitCode = Running /\ UpstreamRetries(NoResponse, 0)
  \/ proxy.exitCode = Running /\ UpstreamFails
  \/ ConnectionCloses
  \/ Signal
  \/ ForceTimerFires

SpecShutdown == InitProxy /\ [][NextShutdown]_vars /\ WF_vars(ForceTimerFires)

\* ---------------------------------------------- specification: isolation

\* an accepted host that differs from tenant A's in its first label
DashA == <<"-">> \o TenantA

\* the tenants whose credentials are stored
OwnerHosts == {TenantA, DashA, TenantB}

\* values of the :tenantHost parameter that validateTenantHost accepts
IsolationHosts == OwnerHosts \cup {<<LF>> \o TenantA, <<SP>> \o TenantA}

\* the refresh token or API key provisioned for a tenant
CredentialOf(kind, tenantHost) == <<kind, "of", tenantHost>>

\* Requests to /vincere, one after the other, to a service where each owner
\* has its refresh token and its API key stored under its own names.
InitIsolation ==
  /\ now = 0
  /\ auths = 0
  /\ call = [c \in 1..NumCalls |-> NoCall]
  /\ proxy = NoProxy
  /\ oauth = NoOAuth
  /\ idTokenCache = <<>>
  /\ vault =
       [name \in {buildSecretName(h, type) :
                    h \in OwnerHosts, type \in {RefreshTokenType, ApiKeyType}} |->
          LET h == CHOOSE o \in OwnerHosts :
                     name \in {buildSecretName(o, RefreshTokenType),
                               buildSecretName(o, ApiKeyType)}
          IN IF name = buildSecretName(h, RefreshTokenType)
               THEN CredentialOf("rt", h) ELSE CredentialOf("key", h)]

NextIsolation ==
  \/ /\ proxy.pc = "idle"
     /\ \E c \in Calls, h \in IsolationHosts :
          NextSlot(c) /\ ProxyRequest(c, h, <<"x">>, Get)
  \/ \E c \in Calls : ProxyTokenStep(c)
  \/ ApiKeyResolves
  \/ ApiKeyRejects
  \/ UpstreamResponds(200)
  \/ UpstreamRetries(NoResponse, 0)
  \/ UpstreamFails
  \/ VincereRequestEnds

SpecIsolation == InitIsolation /\ [][NextIsolation]_vars

\* ------------------------------------------------ specification: callback

CallbackStates ==
  {ForgedState, Rep("n", MinNonceLength) \o <<":">> \o TenantB,
   Rep("n", MinNonceLength) \o <<":">> \o EvilCom}

\* Requests to /auth/callback, one after the other, to a service where no
\* tenant is authorized yet, or where the tenants are authorized and have API
\* keys and tenant A's id_token is cached.
InitCallback ==
  /\ now = 0
  /\ auths = 0
  /\ call = [c \in 1..1 |-> NoCall]
  /\ proxy = NoProxy
  /\ oauth = NoOAuth
  /\ \/ vault = <<>> /\ idTokenCache = <<>>
     \/ /\ vault = StoredSecrets({RefreshTokenType, ApiKeyType})
        /\ idTokenCache = [t \in {TenantA} |->
             [token |-> StoredIdToken, expiresAt |-> idTokenCacheSeconds * 1000]]

NextCallback ==
  \/ /\ oauth.pc = "idle"
     /\ \E code \in {Rep("c", MinCodeLength), <<>>}, state \in CallbackStates,
           e \in ErrorInputs :
          AuthCallback(code, state, e)
  \/ ExchangeResolves
  \/ ExchangeRejects
  \/ StoreResolves
  \/ StoreRejects
  \/ AuthRequestEnds

SpecCallback == InitCallback /\ [][NextCallback]_vars

\* -------------------------------------------------- specification: guards

Delete == <<"D","E","L","E","T","E">>
Patch == <<"P","A","T","C","H">>
HeadMethod == <<"H","E","A","D">>
Options == <<"O","P","T","I","O","N","S">>

\* req.method, which Node gives in upper case
RequestMethods == {Get, Post, Put, Delete, Patch, HeadMethod, Options}

AllowedIp == <<"1","0",".","0",".","0",".","1">>
OtherIp == <<"1","0",".","0",".","0",".","2">>

\* ALLOWED_IPS unset or naming one address, REQUIRE_PSK unset or '1',
\* and the logger's level 'info' or 'debug'
Configs ==
  [allowedIps : {{}, {AllowedIp}}, requirePsk : BOOLEAN,
   logLevel : {"info", "debug"}]

TokenInputs == {<<>>, StoredPsk, <<"psk", "other", 0>>}

\* req.body where express.json parsed nothing
NoBody == <<"{}">>

ParsedBody == <<"{rows}">>

\* no body; an empty body; a body of five bytes; a chunked body, which has
\* no Content-Length
BodyInputs ==
  {[contentLength |-> <<>>, body |-> NoBody],
   [contentLength |-> <<"0">>, body |-> NoBody],
   [contentLength |-> <<"5">>, body |-> ParsedBody],
   [contentLength |-> <<>>, body |-> ParsedBody]}

RequestInputs ==
  {[clientIp |-> ip, token |-> token, contentLength |-> b.contentLength,
    body |-> b.body, tenantHost |-> h, path |-> p, method |-> m] :
     ip \in {AllowedIp, OtherIp}, token \in TokenInputs, b \in BodyInputs,
     h \in GuardHosts, p \in GuardPaths, m \in RequestMethods}

\* a secret that exists and has no value
EmptyValue == <<>>

\* One request to /vincere, to a service where the tenants are authorized,
\* where tenant A's id_token is or is not cached, where tenant A has no API
\* key, has one, or has one with no value, and where the PSK is or is not
\* provisioned.
InitGuards ==
  /\ now = 0
  /\ auths = 0
  /\ call = [c \in 1..1 |-> NoCall]
  /\ proxy = NoProxy
  /\ oauth = NoOAuth
  /\ \/ idTokenCache = <<>>
     \/ idTokenCache = [t \in {TenantA} |->
          [token |-> StoredIdToken, expiresAt |-> idTokenCacheSeconds * 1000]]
  /\ \E apiKeys \in {<<>>, <<StoredApiKey>>, <<EmptyValue>>},
        psks \in {<<>>, <<StoredPsk>>} :
       vault = StoredSecrets({RefreshTokenType})
                 @@ [name \in {buildSecretName(TenantA, ApiKeyType)
                                 : i \in DOMAIN apiKeys} |-> apiKeys[1]]
                 @@ [name \in {PskSecretName : i \in DOMAIN psks} |-> psks[1]]

NextGuards ==
  \/ /\ proxy.pc = "idle"
     /\ \E config \in Configs, request \in RequestInputs :
          VincereRequest(1, config, request)
  \/ PskResolves
  \/ PskRejects
  \/ ProxyTokenStep(1)
  \/ ApiKeyResolves
  \/ ApiKeyRejects
  \/ \E status \in UpstreamStatuses : UpstreamResponds(status)
  \/ UpstreamRetries(NoResponse, 0)
  \/ UpstreamFails

SpecGuards == InitGuards /\ [][NextGuards]_vars

\* ---------------------------------------------------- specification: PSK

PskRequests ==
  {[clientIp |-> AllowedIp, token |-> token, contentLength |-> <<>>,
    body |-> NoBody, tenantHost |-> TenantA, path |-> <<"x">>, method |-> Get] :
     token \in {<<>>, StoredPsk, RotatedPsk}}

\* Requests to /vincere for tenant A, one after the other, to a service with
\* REQUIRE_PSK=1 whose PSK is rotated at some moment.
InitPsk ==
  /\ now = 0
  /\ auths = 0
  /\ call = [c \in 1..MaxRequests |-> NoCall]
  /\ proxy = NoProxy
  /\ oauth = NoOAuth
  /\ idTokenCache = <<>>
  /\ vault = StoredSecrets({RefreshTokenType}) @@ (PskSecretName :> StoredPsk)

NextPsk ==
  \/ /\ proxy.pc = "idle"
     /\ \E c \in Calls, request \in PskRequests :
          /\ NextSlot(c)
          /\ call[c].pc = "idle"
          /\ VincereRequest(c, [allowedIps |-> {}, requirePsk |-> TRUE,
                                logLevel |-> "info"], request)
  \/ PskResolves
  \/ PskRejects
  \/ \E c \in Calls : ProxyTokenStep(c)
  \/ ApiKeyResolves
  \/ ApiKeyRejects
  \/ \E status \in {200} : UpstreamResponds(status)
  \/ UpstreamRetries(NoResponse, 0)
  \/ UpstreamFails
  \/ VincereRequestEnds
  \/ RotatePsk

SpecPsk == InitPsk /\ [][NextPsk]_vars

\* ------------------------------------------------- specification: health

Loopback == <<"1","2","7",".","0",".","0",".","1">>

HealthConfigs ==
  [allowedIps : {{}, {AllowedIp}}, requirePsk : BOOLEAN,
   nodeEnv : {"development", "production"}]

HealthRequests ==
  [clientIp : {AllowedIp, OtherIp, Loopback}, token : {<<>>, StoredPsk},
   forwardedProto : {<<>>, Http, Https}]

\* the request of the HEALTHCHECK of the image:
\* require('http').get('http://localhost:8080/healthz')
HealthCheck ==
  [clientIp |-> Loopback, token |-> <<>>, forwardedProto |-> <<>>]

\* GET /healthz, one request after the other, to a service in any state of
\* the guards' configuration and of the tenant's authorization.
NextHealth ==
  \/ \E config \in HealthConfigs, request \in HealthRequests :
       HealthzRequest(config, request)
  \/ VincereRequestEnds

SpecHealth == InitGuards /\ [][NextHealth]_vars

\* ------------------------------------------------------------------ claims

RefreshTokenName(c) == buildSecretName(call[c].tenantHost, RefreshTokenType)

\* C1 (Spec): two getIdTokenForTenant calls for one tenant, the second issued
\* while the first, having missed the cache, still waits for its secret read
\* and itself missing the cache, cause one token endpoint call between them
\* and return the same id token.
C1_ConcurrentCallsShareOneRefresh ==
  \A c, d \in Calls :
    (d \in call[c].overlapped /\ call[c].pc = "returned" /\ call[d].pc = "returned")
      => /\ call[c].upstreamCalls + call[d].upstreamCalls = 1
         /\ call[c].result = call[d].result

\* C2 (Spec): for each tenant at most one refresh is in flight; stated for its
\* upstream part, no tenant ever has two token endpoint calls outstanding.
C2_NoSecondUpstreamRefresh ==
  \A t \in Tenants :
    Cardinality({c \in Calls : call[c].tenantHost = t
                                 /\ call[c].pc = "refreshTokens"}) <= 1

\* C3 (SpecSeq): a call is answered from the cache, with no secret store read
\* and no token endpoint call, exactly when an entry exists with
\* now < expiresAt; otherwise it reads the secret and, the store returning the
\* refresh credential, makes exactly one token endpoint call, and the token it
\* returns is the one it cached.
C3_CacheWindow ==
  [][\A c \in Calls :
       /\ (call[c].pc = "idle" /\ call'[c].pc # "idle") =>
            LET t == call'[c].tenantHost
            IN IF t \in DOMAIN idTokenCache /\ now < idTokenCache[t].expiresAt
                 THEN /\ call'[c].pc = "returned"
                      /\ call'[c].result = idTokenCache[t].token
                      /\ call'[c].vaultReads = 0
                      /\ call'[c].upstreamCalls = 0
                 ELSE /\ call'[c].pc = "getSecret"
                      /\ call'[c].upstreamCalls = 0
       /\ (call[c].pc = "getSecret" /\ call'[c].pc # "getSecret"
             /\ getSecretOrNull(RefreshTokenName(c)) # <<>>
             /\ call'[c].error # ErrKeyVault) =>
            /\ call'[c].pc = "refreshTokens"
            /\ call'[c].upstreamCalls = 1
       /\ (call[c].pc \in {"refreshTokens", "setSecret"}) =>
            /\ call'[c].upstreamCalls = 1
            /\ call'[c].pc = "returned" =>
                 /\ call'[c].result = call'[c].response.id_token
                 /\ call'[c].result = idTokenCache'[call[c].tenantHost].token
    ]_vars

\* C3's case: the first call refreshed, the second was served its token from
\* the cache, and the third, at the expiry instant of the entry, which is
\* still in the cache, has missed it and sent a refresh.
C3_Witness ==
  /\ Cardinality(Calls) >= 3
  /\ \A c \in 1..3 : call[c].tenantHost = TenantA
  /\ call[1].pc = "returned" /\ call[1].upstreamCalls = 1
  /\ call[2].pc = "returned" /\ call[2].upstreamCalls = 0
  /\ call[2].result = call[1].result
  /\ TenantA \in DOMAIN idTokenCache
  /\ idTokenCache[TenantA].token = call[1].result
  /\ idTokenCache[TenantA].expiresAt = now
  /\ call[3].pc = "refreshTokens" /\ call[3].upstreamCalls = 1

\* C4 (Spec): when the secret read of a call finds no refresh credential for
\* its tenant, the call throws, the not-authorized error unless the read
\* itself failed, having made no token endpoint call, and the cache and the
\* secret store are as they were.
C4_NotAuthorized ==
  [][\A c \in Calls :
       (call[c].pc = "getSecret" /\ call'[c].pc # "getSecret"
          /\ getSecretOrNull(RefreshTokenName(c)) = <<>>) =>
         /\ call'[c].pc = "threw"
         /\ call'[c].error \in {ErrNotAuthorized, ErrKeyVault}
         /\ call'[c].upstreamCalls = 0
         /\ idTokenCache' = idTokenCache
         /\ vault' = vault
    ]_vars

C4_Witness ==
  \E c \in Calls :
    /\ call[c].pc = "threw"
    /\ call[c].error = ErrNotAuthorized
    /\ call[c].upstreamCalls = 0
    /\ RefreshTokenName(c) \notin DOMAIN vault

\* C5 (SpecSeq): when a call that refreshed returns, the tenant's secret holds
\* the refresh_token of the token response if it carried one, and otherwise
\* still the credential the call refreshed with.
C5_RotationWriteBack ==
  [][\A c \in Calls :
       (InFlight(c) /\ call'[c].pc = "returned") =>
         /\ RefreshTokenName(c) \in DOMAIN vault'
         /\ vault'[RefreshTokenName(c)] =
              IF call'[c].response.refresh_token # <<>>
                THEN call'[c].response.refresh_token
                ELSE call[c].locals.refreshToken
    ]_vars

\* C5's case: storeRefreshToken stored the credential of the code exchange, a
\* refresh rotated it, and the secret holds the rotated value.
C5_Witness ==
  \E c \in Calls :
    /\ auths = 1
    /\ call[c].pc = "returned"
    /\ call[c].response.refresh_token # <<>>
    /\ vault[RefreshTokenName(c)] = call[c].response.refresh_token
    /\ vault[RefreshTokenName(c)] # ExchangedRefreshToken(1)

\* C6 (Spec): a call can take its next step, and a new call can start, whenever
\* no other call for the same tenant is in flight, whatever the calls for other
\* tenants are doing.
C6_TenantsIndependent ==
  \A c \in Calls :
    LET alone(t) == \A d \in Calls \ {c} :
                      InFlight(d) => call[d].tenantHost # t
    IN /\ (InFlight(c) /\ alone(call[c].tenantHost)) => ENABLED CallStep(c)
       /\ (call[c].pc = "idle" /\ NextSlot(c)) =>
            \A t \in Tenants : alone(t) => ENABLED GetIdTokenForTenant(c, t)

\* C6's case: the second call, for TenantB, has refreshed and returned while
\* the first, for TenantA, still waits for its secret read.
C6_Witness ==
  /\ call[1].tenantHost = TenantA /\ call[1].pc = "getSecret"
  /\ call[2].tenantHost = TenantB /\ call[2].pc = "returned"
  /\ call[2].upstreamCalls = 1

\* C7 (SpecProxy): every upstream request of a proxy request that passed
\* validation goes to a URL with scheme https, with the validated tenant host
\* as its host, and with a path under /api/v2/.
C7_UpstreamUrlConfined ==
  proxy.upstreamRequests > 0 =>
    /\ proxy.url.scheme = Https
    /\ proxy.url.host = toLowerCase(trim(proxy.tenantHost))
    /\ Len(proxy.url.path) >= 3
    /\ proxy.url.path[1] = <<"a","p","i">>
    /\ proxy.url.path[2] = <<"v","2">>

\* C8 (SpecProxy): a proxy request whose path contains '..', '//' or NUL, or
\* starts with '/', 'http://' or 'https://', or whose tenant host fails
\* validation, is answered 400, and nothing was done for it: no invocation of
\* the token lifecycle (so no secret read and no refresh), no read of the API
\* key, no upstream request, the store and the cache as they were.
C8_InvalidRequestRejected ==
  LET path == proxy.path
      pathInvalid ==
        \/ includes(path, <<".",".">>)
        \/ includes(path, <<"/","/">>)
        \/ includes(path, <<NUL>>)
        \/ startsWith(path, <<"/">>)
        \/ startsWith(path, Http \o <<":","/","/">>)
        \/ startsWith(path, Https \o <<":","/","/">>)
      hostInvalid == ~validateTenantHost(proxy.tenantHost).valid
  IN proxy.pc # "idle" /\ (pathInvalid \/ hostInvalid) =>
       /\ proxy.pc = "responded"
       /\ proxy.status = 400
       /\ proxy.apiKeyReads = 0
       /\ proxy.upstreamRequests = 0
       /\ \A c \in Calls : call[c] = NoCall
       /\ auths = 0
       /\ \A n \in DOMAIN vault : vault[n] \in {StoredRefreshToken, StoredApiKey}
       /\ \A t \in DOMAIN idTokenCache : idTokenCache[t].token = StoredIdToken

\* a request for an authorized tenant with '//' in its path was answered 400
C8_Witness ==
  /\ proxy.pc = "responded"
  /\ proxy.status = 400
  /\ proxy.tenantHost = TenantA
  /\ includes(proxy.path, <<"/","/">>)
  /\ ~includes(proxy.path, <<".",".">>)
  /\ ~startsWith(proxy.path, <<"/">>)
  /\ buildSecretName(TenantA, RefreshTokenType) \in DOMAIN vault

\* C9 (SpecAuth): a request to /auth/callback whose state is not exactly two
\* colon-separated parts, or has a nonce shorter than 16 or longer than 128
\* characters or with characters outside [a-zA-Z0-9-_], or has a tenant that
\* fails tenant validation, or whose code has a length outside 10..1024 or
\* characters outside [a-zA-Z0-9-_=+/], is answered 400, and no code exchange
\* was sent and no secret written for it.
C9_InvalidCallbackRejected ==
  LET state == oauth.state
      colons == {i \in 1..Len(state) : state[i] = ":"}
      k == CHOOSE i \in colons : TRUE
      nonce == SubSeq(state, 1, k - 1)
      tenant == SubSeq(state, k + 1, Len(state))
      stateInvalid ==
        \/ Cardinality(colons) # 1
        \/ Len(nonce) < 16
        \/ Len(nonce) > 128
        \/ \E i \in 1..Len(nonce) : nonce[i] \notin Alnum \cup {"-", "_"}
        \/ ~validateTenantHost(tenant).valid
      code == oauth.code
      codeInvalid ==
        \/ Len(code) < 10
        \/ Len(code) > 1024
        \/ \E i \in 1..Len(code) :
             code[i] \notin Alnum \cup {"-", "_", "=", "+", "/"}
  IN oauth.route = "/callback" /\ (stateInvalid \/ codeInvalid) =>
       /\ oauth.pc = "responded"
       /\ oauth.status = 400
       /\ oauth.exchanges = 0
       /\ vault = <<>>
       /\ auths = 0

\* a callback with a valid code and a state whose nonce is one character
\* short of the minimum was answered 400
C9_Witness ==
  /\ oauth.route = "/callback"
  /\ oauth.pc = "responded"
  /\ oauth.status = 400
  /\ oauth.errorParam = <<>>
  /\ oauth.code = Rep("c", MinCodeLength)
  /\ oauth.state = Rep("n", MinNonceLength - 1) \o <<":">> \o TenantA

\* C10 (SpecAuth): a request to /auth/start with a tenant host that fails
\* validation, such as evil.com, vincere.io, localhost or the empty string,
\* is answered 400: no state token is generated and there is no redirect.
C10_InvalidStartRejected ==
  LET examples == { EvilCom,
                    <<"v","i","n","c","e","r","e",".","i","o">>,
                    <<"l","o","c","a","l","h","o","s","t">>,
                    <<>> }
  IN oauth.route = "/start"
     /\ (oauth.tenantHost \in examples \/ ~validateTenantHost(oauth.tenantHost).valid)
     => /\ oauth.pc = "responded"
        /\ oauth.status = 400
        /\ oauth.issuedState = <<>>
        /\ ~oauth.redirected
        /\ vault = <<>>

\* /auth/start?tenantHost=evil.com was answered 400
C10_Witness ==
  /\ oauth.route = "/start"
  /\ oauth.tenantHost = EvilCom
  /\ oauth.pc = "responded"
  /\ oauth.status = 400

\* C11 (SpecAuth): the state /auth/start issues for an accepted tenant host t
\* has exactly one colon, t after it and before it a nonce of more than 20
\* characters of [A-Za-z0-9_-]; validateOAuthState accepts it, and the
\* callback's split(':')[1] gives back exactly t.
C11_StateRoundTrip ==
  LET t == oauth.tenantHost
      state == oauth.issuedState
      colons == {i \in 1..Len(state) : state[i] = ":"}
      k == CHOOSE i \in colons : TRUE
      nonce == SubSeq(state, 1, k - 1)
  IN oauth.route = "/start" /\ validateTenantHost(t).valid =>
       /\ oauth.pc = "responded"
       /\ Cardinality(colons) = 1
       /\ SubSeq(state, k + 1, Len(state)) = t
       /\ Len(nonce) > 20
       /\ \A i \in 1..Len(nonce) : nonce[i] \in Alnum \cup {"-", "_"}
       /\ validateOAuthState(state).valid
       /\ split(state, ":")[2] = t

\* /auth/start issued a state whose nonce has a '-' and a '_', for a tenant
\* host given with a leading space
C11_Witness ==
  /\ oauth.route = "/start"
  /\ oauth.status = 302
  /\ oauth.tenantHost = <<SP>> \o TenantA
  /\ \E i \in 1..Len(oauth.issuedState) : oauth.issuedState[i] = "-"
  /\ \E i \in 1..Len(oauth.issuedState) : oauth.issuedState[i] = "_"

\* C12 (SpecFlow): /auth/callback sends a code exchange only for a state that
\* /auth/start issued before, and for a given state at most once.
C12_StateSingleUse ==
  \A i \in 1..Len(oauth.exchanged) :
    /\ oauth.exchanged[i] \in oauth.issued
    /\ \A j \in 1..Len(oauth.exchanged) :
         oauth.exchanged[j] = oauth.exchanged[i] => j = i

\* C13 (SpecProxy): a proxy request that failed because the tenant has no
\* stored refresh token is answered 401, not 502, with a hint that names
\* /auth/start and the tenant; the secret was read once and nothing was sent
\* upstream, by the token lifecycle or by the forwarder.
C13_NeedsAuthorization ==
  LET c == proxy.slot
  IN /\ proxy.pc = "responded"
     /\ c \in Calls
     /\ call[c].pc = "threw"
     /\ call[c].error = "Tenant not authorized - no refresh token found"
     => /\ proxy.status = 401
        /\ includes(proxy.hint, <<"/","a","u","t","h","/","s","t","a","r","t">>)
        /\ endsWith(proxy.hint, proxy.tenantHost)
        /\ call[c].vaultReads = 1
        /\ call[c].upstreamCalls = 0
        /\ proxy.apiKeyReads = 0
        /\ proxy.upstreamRequests = 0

\* a request for tenant A, which has no refresh token, was answered 401
C13_Witness ==
  /\ proxy.pc = "responded"
  /\ proxy.status = 401
  /\ proxy.tenantHost = TenantA
  /\ buildSecretName(TenantA, RefreshTokenType) \notin DOMAIN vault
  /\ call[1].vaultReads = 1

C15_RetryableOutcomeRetried ==
  /\ proxy.pc = "responded"
  /\ proxy.upstreamRequests > 0
  /\ proxy.upstreamStatus \in {0, 429, 502, 503, 504}
  => /\ proxy.upstreamRequests > 1
     /\ proxy.lastDelay >= 2000

\* C16 (SpecClient): no call through the shared client makes more than 1 + 3
\* attempts, be it the upstream request, the refresh or the code exchange; an
\* upstream request whose attempts all got no response ends in 502 after the
\* fourth, and a refresh ends in a transport error, and its proxy request in
\* 502, only after its fourth attempt.
C16_AttemptsBounded ==
  /\ [](/\ proxy.upstreamRequests <= 1 + 3
        /\ oauth.attempts <= 1 + 3
        /\ \A c \in Calls :
             /\ call[c].locals.attempts <= 1 + 3
             /\ call[c].pc = "threw" /\ call[c].error = "Network Error"
                /\ proxy.slot = c
                => proxy.pc = "responded" /\ proxy.status = 502
        /\ proxy.pc = "responded" /\ proxy.upstreamRequests > 0
           /\ proxy.upstreamStatus = 0
           => proxy.status = 502 /\ proxy.upstreamRequests = 1 + 3)
  /\ [][\A c \in Calls :
          call[c].pc = "refreshTokens" /\ call'[c].pc = "threw"
          /\ call'[c].error = "Network Error"
          => call[c].locals.attempts = 1 + 3]_vars

\* the proxy answered 502 after four upstream attempts without a response,
\* while the code exchange is at its fourth attempt
C16_Witness ==
  /\ proxy.pc = "responded"
  /\ proxy.status = 502
  /\ proxy.upstreamRequests = 4
  /\ proxy.upstreamStatus = 0
  /\ oauth.pc = "awaitExchange"
  /\ oauth.attempts = 4

\* the response of the guards that run before methodGuard, to a request they
\* refuse: ipAllowList's 403, pskGuard's 401 and 500
RefusedEarlier ==
  IF ~ipAllowList(proxy.allowedIps, proxy.clientIp)
    THEN proxy.status = 403
    ELSE /\ proxy.requirePsk
         /\ \/ proxy.status = 500
            \/ proxy.status = 401 /\ proxy.token # StoredPsk

C19_ClearsCacheOnly ==
  [][/\ \A t \in Tenants :
          ClearIdTokenCache(t) =>
            /\ vault' = vault
            /\ call' = call
            /\ DOMAIN idTokenCache' = DOMAIN idTokenCache \ {t}
            /\ \A u \in DOMAIN idTokenCache \ {t} :
                 idTokenCache'[u] = idTokenCache[u]
     /\ ClearIdTokenCacheAll =>
          /\ vault' = vault
          /\ call' = call
          /\ DOMAIN idTokenCache' = {}]_vars

\* tenant A's token was fetched and cached, and its entry has been cleared;
\* the store still holds A's refresh token
C19_Witness ==
  /\ \E c \in Calls : /\ call[c].pc = "returned"
                       /\ call[c].tenantHost = TenantA
                       /\ call[c].upstreamCalls = 1
  /\ TenantA \notin DOMAIN idTokenCache
  /\ getSecretOrNull(buildSecretName(TenantA, RefreshTokenType)) # <<>>

\* C20: clearing twice leaves the cache as clearing once does; the cache
\* that clearIdTokenCache(t), or clearIdTokenCache(), leaves has no entry, and
\* right after the call no hit, for the tenants cleared; an invocation that finds no hit returns nothing from the
\* cache and goes on to read the refresh token; and an invocation that went
\* that way returns the id_token of its own refresh.
C20_ClearThenRefetch ==
  /\ [](\A t \in Tenants \cup {<<>>} :
          clearIdTokenCache(clearIdTokenCache(idTokenCache, t), t)
            = clearIdTokenCache(idTokenCache, t))
  /\ [](\A t \in Tenants :
          /\ t \notin DOMAIN clearIdTokenCache(idTokenCache, t)
          /\ t \notin DOMAIN clearIdTokenCache(idTokenCache, <<>>))
  /\ [][/\ \A t \in Tenants : ClearIdTokenCache(t) => ~CacheHit(t, now)'
        /\ ClearIdTokenCacheAll => \A t \in Tenants : ~CacheHit(t, now)'
        /\ \A c \in Calls, t \in Tenants :
             GetIdTokenForTenant(c, t) /\ ~CacheHit(t, now) =>
               /\ call'[c].pc = "getSecret"
               /\ call'[c].result = <<>>]_vars
  /\ [](\A c \in Calls :
          call[c].pc = "returned" /\ call[c].vaultReads > 0 =>
            /\ call[c].upstreamCalls = 1
            /\ call[c].result = call[c].response.id_token
            /\ call[c].result # <<>>)

\* two invocations for tenant A have returned, each the token of its own
\* refresh, with no time passed between them: the entry the first one cached
\* was cleared before the second
C20_Witness ==
  /\ now = 0
  /\ \E c, d \in Calls :
       /\ c < d
       /\ call[c].pc = "returned" /\ call[d].pc = "returned"
       /\ call[c].tenantHost = TenantA /\ call[d].tenantHost = TenantA
       /\ call[c].upstreamCalls = 1 /\ call[d].upstreamCalls = 1
       /\ call[c].result # call[d].result
       /\ TenantA \in DOMAIN idTokenCache
       /\ idTokenCache[TenantA].token = call[d].result

CredentialValues ==
  ({proxy.idToken, proxy.apiKey}
     \cup {vault[name] : name \in {n \in DOMAIN vault : n # PskSecretName}})
    \ {<<>>}

\* C22: no record the logger writes for a request to /vincere has, in any of
\* its fields, the value of a refresh token, an id_token or an API key, and
\* neither has the response.
C22_NoCredentialLogged ==
  /\ \A entry \in proxy.log :
       \A leaf \in entry.fields : leaf[2] \notin CredentialValues
  /\ proxy.hint \notin CredentialValues
  /\ proxy.data \notin CredentialValues

\* C23: whatever fails for a request (validation, a missing refresh token, a
\* failed refresh, an upstream request without response, a failed read of
\* the store, the request's timeout), the process does not exit.
C23_ProcessKeepsRunning == ~proxy.exited

\* C24: with REQUIRE_PSK, a request gets to the handler, and causes a read of
\* a tenant's secret, a refresh or an upstream request, only when the PSK is
\* stored and the request's X-Proxy-Token equals it; while the PSK is being
\* read nothing of that has happened; a request answered while no PSK is
\* stored was refused (403 by the allow-list, else 500), and a step in which
\* the read of the PSK fails answers 500.
C24_PskFailsClosed ==
  /\ [](proxy.requirePsk =>
         /\ proxy.handled =>
              /\ getSecretOrNull(PskSecretName) # <<>>
              /\ proxy.token = getSecretOrNull(PskSecretName)
         /\ ~proxy.handled =>
              /\ call[1].pc = "idle"
              /\ proxy.apiKeyReads = 0
              /\ proxy.upstreamRequests = 0
         /\ proxy.pc = "awaitPsk" => ~proxy.handled
         /\ proxy.pc = "responded" /\ getSecretOrNull(PskSecretName) = <<>> =>
              ~proxy.handled /\ proxy.status \in {403, 500})
  /\ [][PskRejects => ~proxy'.handled /\ proxy'.status = 500]_vars

\* with REQUIRE_PSK, a request with the stored PSK has been forwarded
C24_Witness ==
  /\ proxy.requirePsk
  /\ proxy.token = StoredPsk
  /\ proxy.handled
  /\ proxy.upstreamRequests > 0
  /\ proxy.pc = "responded"
  /\ proxy.status = 200


\* C25 (SpecPsk): the PSK is read from the secret store at every PSK check:
\* a check accepts a request only when its X-Proxy-Token equals the value
\* stored at that moment, and once the PSK is rotated a check accepts the new
\* value, unless the read fails, and refuses the old one with 401 (500 when
\* the read fails), the service never having restarted.
C25_PskReadOnEveryRequest ==
  /\ [][proxy.pc = "awaitPsk" /\ proxy'.pc # "awaitPsk" =>
          /\ proxy'.handled => proxy.token = getSecretOrNull(PskSecretName)
          /\ getSecretOrNull(PskSecretName) = RotatedPsk =>
               /\ proxy.token = RotatedPsk /\ PskResolves => proxy'.handled
               /\ proxy.token = StoredPsk =>
                    /\ ~proxy'.handled
                    /\ proxy'.pc = "responded"
                    /\ proxy'.status \in {401, 500}]_vars
  /\ [](proxy.handled => proxy.token \in {StoredPsk, RotatedPsk})

\* a request with the new PSK is served after the rotation, an earlier
\* request having been served with the old one
C25_Witness ==
  /\ getSecretOrNull(PskSecretName) = RotatedPsk
  /\ proxy.token = RotatedPsk
  /\ proxy.handled
  /\ proxy.pc = "responded"
  /\ proxy.status = 200
  /\ proxy.slot = 2
  /\ call[1].pc = "returned"

C27_HealthzAnswers200 ==
  proxy.pc = "responded" /\ proxy.path = Healthz =>
    proxy.status = 200 /\ proxy.data = HealthOk

\* C28 (SpecProxy): the upstream request of an accepted host and path p goes
\* to https://{tenantHost}/api/v2/{p}, and the x-proxy-target header of the
\* response names that URL, paths that begin with 'api/v2/' included.
C28_TargetIsUpstreamUrl ==
  proxy.pc = "responded" /\ proxy.xProxyTarget # <<>> =>
    /\ proxy.xProxyTarget =
         Https \o <<":","/","/">> \o proxy.tenantHost \o <<"/">> \o ApiV2
           \o proxy.path
    /\ proxy.url = ParseUrl(proxy.xProxyTarget)

\* C29 (SpecSeq): a refresh that fails (status other than 200, no id_token,
\* transport failure) makes getIdTokenForTenant throw that error without a
\* token and after its one call of refreshTokens, leaves the cache and the
\* secret store as they were, with no valid entry for the tenant; the next
\* call for a tenant without a valid entry starts with the read of the
\* refresh token, that is a new refresh.
C29_FailedRefresh ==
  /\ [][\A c \in Calls :
          call[c].pc = "refreshTokens" /\ call'[c].pc = "threw" =>
            /\ call'[c].error \in RefreshErrors
            /\ call'[c].upstreamCalls = call[c].upstreamCalls
            /\ idTokenCache' = idTokenCache
            /\ vault' = vault
            /\ ~CacheHit(call[c].tenantHost, now)]_vars
  /\ [](\A c \in Calls :
          call[c].pc = "threw" /\ call[c].error \in RefreshErrors =>
            /\ call[c].result = <<>>
            /\ call[c].upstreamCalls = 1
            /\ call[c].vaultReads = 1)
  /\ [][\A c \in Calls :
          /\ call[c].pc = "idle"
          /\ call'[c].pc # "idle"
          /\ ~CacheHit(call'[c].tenantHost, now)
          => call'[c].pc = "getSecret"]_vars

\* after a failed refresh for tenant A, with its refresh token still stored
\* and nothing cached, the next call for A has sent its own refresh
C29_Witness ==
  /\ call[1].pc = "threw"
  /\ call[1].error \in RefreshErrors
  /\ call[1].tenantHost = TenantA
  /\ TenantA \notin DOMAIN idTokenCache
  /\ getSecretOrNull(buildSecretName(TenantA, RefreshTokenType))
       = ExchangedRefreshToken(1)
  /\ call[2].locals.refreshToken = ExchangedRefreshToken(1)
  /\ call[2].tenantHost = TenantA
  /\ call[2].pc = "refreshTokens"
  /\ call[2].upstreamCalls = 1

\* C30 (SpecSeq): when the write of the rotated refresh token fails after a
\* refresh that succeeded, the call throws the store's error and returns no
\* token, the secret store keeps the refresh token the refresh used, and the
\* cache keeps the new id_token, which calls within the window get without
\* a refresh.
C30_WriteBackFails ==
  /\ [][\A c \in Calls :
          call[c].pc = "setSecret" /\ call'[c].pc = "threw" =>
            /\ call'[c].error = ErrKeyVault
            /\ call'[c].result = <<>>
            /\ vault' = vault
            /\ getSecretOrNull(buildSecretName(call[c].tenantHost,
                                               RefreshTokenType))'
                 = call[c].locals.refreshToken
            /\ call[c].locals.tokens.refresh_token # call[c].locals.refreshToken
            /\ idTokenCache' = idTokenCache
            /\ call[c].tenantHost \in DOMAIN idTokenCache
            /\ idTokenCache[call[c].tenantHost] =
                 [token |-> call[c].locals.tokens.id_token,
                  expiresAt |-> call[c].locals.now + idTokenCacheSeconds * 1000]]_vars
  /\ [][\A c \in Calls :
          /\ call[c].pc = "idle"
          /\ call'[c].pc # "idle"
          /\ CacheHit(call'[c].tenantHost, now)
          => /\ call'[c].pc = "returned"
             /\ call'[c].result = idTokenCache[call'[c].tenantHost].token
             /\ call'[c].upstreamCalls = 0]_vars

\* the first call for tenant A failed on the write, the second got the
\* id_token of the first call's refresh from the cache, and the store holds
\* the refresh token of the authorization
C30_Witness ==
  /\ call[1].pc = "threw"
  /\ call[1].error = ErrKeyVault
  /\ call[1].tenantHost = TenantA
  /\ call[2].pc = "returned"
  /\ call[2].tenantHost = TenantA
  /\ call[2].result = call[1].response.id_token
  /\ call[2].upstreamCalls = 0
  /\ getSecretOrNull(buildSecretName(TenantA, RefreshTokenType))
       = ExchangedRefreshToken(1)
  /\ call[1].response.refresh_token # ExchangedRefreshToken(1)
  /\ call[1].response.refresh_token # <<>>

\* C31 (SpecSeq): when getIdTokenForTenant returns the token of a refresh,
\* the cache entry it stored is valid, now < expiresAt, however long the
\* secret read and the token endpoint took.
C31_RefreshLeavesCached ==
  [][\A c \in Calls :
       InFlight(c) /\ call'[c].pc = "returned" =>
         /\ call[c].tenantHost \in DOMAIN idTokenCache'
         /\ idTokenCache'[call[c].tenantHost].token = call'[c].result
         /\ now' < idTokenCache'[call[c].tenantHost].expiresAt]_vars

\* the names buildSecretName gives for the secret type 'refresh_token'
IsRefreshTokenName(name) ==
  /\ startsWith(name, VincereNs \o <<"/">>)
  /\ endsWith(name, <<"/">> \o RefreshTokenType)

\* the values the provider issues as refresh tokens
IsRefreshCredential(value) == value # <<>> /\ value[1] = "rt"

\* C32 (SpecClient): the program changes the secret store only by writing a
\* refresh token under a name of the secret type 'refresh_token': it deletes
\* no secret, writes no id_token, no 'api_key' entry and no 'infra/proxy-psk'.
C32_OnlyRefreshTokensStored ==
  /\ [][/\ DOMAIN vault \subseteq DOMAIN vault'
        /\ \A name \in DOMAIN vault' :
             name \notin DOMAIN vault \/ vault'[name] # vault[name] =>
               /\ IsRefreshTokenName(name)
               /\ name # PskSecretName
               /\ ~endsWith(name, <<"/">> \o ApiKeyType)
               /\ IsRefreshCredential(vault'[name])]_vars
  /\ [](\A name \in DOMAIN vault :
          /\ vault[name] = <<>> \/ vault[name][1] # "id"
          /\ \A t \in DOMAIN idTokenCache : vault[name] # idTokenCache[t].token)

\* the rotated refresh token of a refresh has been written for tenant A, whose
\* new id_token is in the cache only
C32_Witness ==
  /\ getSecretOrNull(buildSecretName(TenantA, RefreshTokenType))
       = TokenResponse(1, TRUE).refresh_token
  /\ TenantA \in DOMAIN idTokenCache
  /\ idTokenCache[TenantA].token = TokenResponse(1, TRUE).id_token
  /\ call[1].pc = "returned"

\* the tenant a refresh token was issued for: the owner of a provisioned
\* token, and for a rotated one the owner of the token it was obtained with
RECURSIVE IssuedFor(_)
IssuedFor(refreshToken) ==
  IF refreshToken[2] = "refresh"
    THEN IssuedFor(call[refreshToken[3]].presented)
    ELSE refreshToken[3]

\* C33 (SpecIsolation): the id-token of an upstream request to host h comes
\* from a refresh with a refresh token issued for h, and the API key sent
\* with it is the one provisioned for h.
C33_TenantIsolation ==
  proxy.upstreamRequests > 0 =>
    /\ \A c \in Calls :
         call[c].response.id_token = proxy.idToken =>
           IssuedFor(call[c].presented) = proxy.url.host
    /\ proxy.apiKey # <<>> => proxy.apiKey[3] = proxy.url.host

\* C34 (SpecReauth): once the authorization flow has stored a new refresh
\* token for a tenant, a call for that tenant returns no id_token that was
\* obtained with the refresh token the flow replaced.
C34_FreshAfterAuthorization ==
  [][\A c \in Calls :
       /\ call[c].pc = "idle"
       /\ call'[c].pc = "returned"
       /\ getSecretOrNull(buildSecretName(call'[c].tenantHost, RefreshTokenType))
            = ExchangedRefreshToken(1)
       => \A d \in Calls :
            call[d].response.id_token = call'[c].result =>
              call[d].presented = ExchangedRefreshToken(1)]_vars

\* C35 (Spec): under any interleaving of calls and an authorization for one
\* tenant, a write-back replaces only the refresh token it was obtained with,
\* so that no newer value is overwritten, and no call presents a refresh
\* token that a rotation answered to another call has replaced.
C35_NewestCredentialKept ==
  [][\A c \in Calls :
       /\ call[c].pc = "setSecret" /\ vault' # vault =>
            getSecretOrNull(RefreshTokenName(c)) = call[c].presented
       /\ call[c].pc = "getSecret" /\ call'[c].pc = "refreshTokens" =>
            \A d \in Calls \ {c} :
              call[d].response.refresh_token # <<>> =>
                call[d].presented # call'[c].presented]_vars

\* C36 (SpecIsolation): two different tenant hosts that validateTenantHost
\* accepted, as the handler passes them on, have different secret names for
\* their refresh tokens.
C36_SecretNamesDistinct ==
  \A c, d \in Calls :
    /\ call[c].pc # "idle"
    /\ call[d].pc # "idle"
    /\ validateTenantHost(call[c].tenantHost).valid
    /\ validateTenantHost(call[d].tenantHost).valid
    /\ call[c].tenantHost # call[d].tenantHost
    => buildSecretName(call[c].tenantHost, RefreshTokenType)
         # buildSecretName(call[d].tenantHost, RefreshTokenType)

\* C37 (SpecErrors): the proxy answers 401 only when the tenant has no stored
\* refresh token; every other failure of a forwarded request is answered 502.
C37_Only401WhenNotAuthorized ==
  proxy.pc = "responded" /\ proxy.handled /\ proxy.status \in {401, 502} =>
    (proxy.status = 401 <=>
       getSecretOrNull(buildSecretName(proxy.tenantHost, RefreshTokenType)) = <<>>
         /\ call[1].error = ErrNotAuthorized)

\* C38 (SpecGuards): the body of a proxied POST request is sent upstream at
\* most once: an attempt that got no response is not followed by another.
C38_PostSentOnce ==
  proxy.sentMethod = Post /\ proxy.sentData # <<>> =>
    proxy.upstreamRequests <= 1

\* C39 (SpecShutdown): after a shutdown signal the server accepts no new
\* request and the process eventually exits: with code 0 when the last open
\* connection has closed, with code 1 when the timer fires while a connection
\* is still open.
C39_ShutdownExits ==
  /\ (proxy.shutdown ~> proxy.exitCode # Running)
  /\ [](proxy.shutdown => ~proxy.accepting)
  /\ [](proxy.exitCode # Running => proxy.shutdown /\ proxy.exitCode \in {0, 1})
  /\ [](proxy.exitCode = 0 => proxy.pc = "idle")
  /\ [](proxy.exitCode = 1 => proxy.pc # "idle")
  /\ [](proxy.shutdown /\ proxy.pc = "idle" => proxy.exitCode = 0)
  /\ [][proxy.shutdown => ~(proxy.pc = "idle" /\ proxy'.pc # "idle")]_vars

\* the timer fired while the upstream request of the one open connection
\* was still unanswered
C39_Witness ==
  /\ proxy.shutdown
  /\ proxy.exitCode = 1
  /\ proxy.pc = "awaitUpstream"
  /\ proxy.upstreamRequests > 0

====
